---- MODULE Spec2Model ----
(***************************************************************************)
(* Admin catalog engine of mimi-petstore-be                                *)
(* (src/app/presentation/api/admin/endpoints/products.py) over the tables  *)
(* of src/app/domain/models/product.py and order_item.py.                  *)
(*                                                                         *)
(* The store is one record `db` of tables.  Every admin request runs as    *)
(* one transaction: its handler works on a copy of the store, statement by *)
(* statement, and the copy replaces the store only when the handler and    *)
(* the final flush raise nothing.  Floats are modelled by small integers.  *)
(***************************************************************************)
EXTENDS Integers, Sequences, FiniteSets, TLC

VARIABLES db, req, resp, served, txs

vars == <<db, req, resp, served, txs>>

(***************************************************************************)
(* Bounds of the model.                                                    *)
(***************************************************************************)
MaxProducts == 2
MaxVariants == 3
MaxAttributes == 2
MaxValues == 4
MaxOrderItems == 1
MaxRequests == 3
MaxClients == 2

(***************************************************************************)
(* Optional[T]: None is the empty sequence, a present value x is <<x>>.    *)
(***************************************************************************)
None == <<>>
Some(x) == <<x>>
IsSome(o) == Len(o) = 1
Val(o) == o[1]

Slugs == {"s1", "s2"}
Skus == {"k1", "k2", "k3"}
AttrNames == {"Size", "Color"}

Range(s) == {s[i] : i \in DOMAIN s}

Min(S) == CHOOSE x \in S : \A y \in S : x <= y

RECURSIVE SumOver(_, _)
SumOver(f, S) ==
    IF S = {} THEN 0
    ELSE LET x == CHOOSE y \in S : TRUE IN f[x] + SumOver(f, S \ {x})

\* f with the keys of S removed
Drop(f, S) == [k \in DOMAIN f \ S |-> f[k]]

\* f with key k bound to v (replacing an earlier binding)
Put(f, k, v) == [x \in DOMAIN f \cup {k} |-> IF x = k THEN v ELSE f[x]]

EmptyMap == [x \in {} |-> 0]

(***************************************************************************)
(* The store.  Tables are functions from primary key to row; the junction  *)
(* table and the order lines are sets; `next` holds the id sequences.      *)
(***************************************************************************)
EmptyStore ==
    [ products   |-> EmptyMap,   \* id -> Product row
      media      |-> EmptyMap,   \* product id -> its ProductImage rows, in insertion order
      attributes |-> EmptyMap,   \* id -> ProductAttribute row
      attr_values |-> EmptyMap,  \* id -> ProductAttributeValue row
      variants   |-> EmptyMap,   \* id -> ProductVariant row
      junctions  |-> {},         \* VariantAttributeValue rows
      order_items |-> {},        \* product_variant_id of the OrderItem rows
      next       |-> [product |-> 1, attribute |-> 1, value |-> 1, variant |-> 1] ]

VariantsOf(d, pid) == {v \in DOMAIN d.variants : d.variants[v].product_id = pid}
AttributesOf(d, pid) == {a \in DOMAIN d.attributes : d.attributes[a].product_id = pid}
ValuesOf(d, aid) == {x \in DOMAIN d.attr_values : d.attr_values[x].attribute_id = aid}

(***************************************************************************)
(* Deletes run as statements against the store, so the foreign keys'       *)
(* ON DELETE CASCADE decides what goes with the deleted rows.              *)
(***************************************************************************)
\* DeleteValues had the junction rows no ON DELETE CASCADE
DeleteValuesOnly(d, ids) ==
    [d EXCEPT !.attr_values = Drop(@, ids)]

DeleteValues(d, ids) ==
    [d EXCEPT !.attr_values = Drop(@, ids),
              !.junctions = {j \in @ : j.attribute_value_id \notin ids}]

DeleteAttributes(d, ids) ==
    LET vals == {x \in DOMAIN d.attr_values : d.attr_values[x].attribute_id \in ids}
    IN  [d EXCEPT !.attributes = Drop(@, ids),
                  !.attr_values = Drop(@, vals),
                  !.junctions = {j \in @ : j.attribute_id \notin ids
                                            /\ j.attribute_value_id \notin vals}]

DeleteVariants(d, ids) ==
    [d EXCEPT !.variants = Drop(@, ids),
              !.junctions = {j \in @ : j.variant_id \notin ids}]

DeleteJunctionsOfVariant(d, vid) ==
    [d EXCEPT !.junctions = {j \in @ : j.variant_id # vid}]

(***************************************************************************)
(* A transaction in progress: the store as its statements see it, the      *)
(* handler's two lookup tables, and the session's unflushed changes        *)
(* (attribute renames, variant field writes, junction inserts).            *)
(***************************************************************************)
NewTx(d) ==
    [ err |-> "OK", http |-> 200, db |-> d,
      abn |-> EmptyMap,     \* attribute_by_name: name -> attribute id
      vip |-> EmptyMap,     \* value_id_by_pair: <<name, value>> -> value id
      apend |-> EmptyMap,   \* attribute id -> name written to the loaded row
      vpend |-> EmptyMap,   \* variant id -> row written to the loaded object
      jpend |-> <<>> ]      \* VariantAttributeValue rows added to the session

\* _admin_error: raises AdminAPIError(error_code, status_code); 400 by default
Fail(t, code, http) == [t EXCEPT !.err = code, !.http = http]

\* `except Exception` of the handlers: a store error becomes INTERNAL_ERROR / 500
InternalError(t) == Fail(t, "INTERNAL_ERROR", 500)

AttrNameTaken(d, pid, name, except) ==
    \E b \in AttributesOf(d, pid) \ except : d.attributes[b].name = name

SkuTaken(d, sku, except) ==
    \E w \in DOMAIN d.variants \ except : d.variants[w].sku = sku

\* UPDATEs of the renamed attributes, one row at a time in primary key order,
\* each checked against uq_product_attributes_product_name
RECURSIVE FlushAttrNames(_, _)
FlushAttrNames(d, pend) ==
    IF DOMAIN pend = {} THEN [ok |-> TRUE, db |-> d]
    ELSE LET a == Min(DOMAIN pend)
             rest == Drop(pend, {a})
         IN  IF a \notin DOMAIN d.attributes \/ d.attributes[a].name = pend[a]
             THEN FlushAttrNames(d, rest)
             ELSE IF AttrNameTaken(d, d.attributes[a].product_id, pend[a], {a})
             THEN [ok |-> FALSE, db |-> d]
             ELSE FlushAttrNames([d EXCEPT !.attributes[a].name = pend[a]], rest)

\* UPDATEs of the written variants, in primary key order, each checked
\* against the unique index on product_variants.sku
RECURSIVE FlushVariants(_, _)
FlushVariants(d, pend) ==
    IF DOMAIN pend = {} THEN [ok |-> TRUE, db |-> d]
    ELSE LET v == Min(DOMAIN pend)
             rest == Drop(pend, {v})
         IN  IF v \notin DOMAIN d.variants
             THEN FlushVariants(d, rest)
             ELSE IF d.variants[v].sku # pend[v].sku /\ SkuTaken(d, pend[v].sku, {v})
             THEN [ok |-> FALSE, db |-> d]
             ELSE FlushVariants([d EXCEPT !.variants[v] = pend[v]], rest)

\* INSERTs of the added junction rows: both foreign keys and
\* uq_variant_attribute_values_variant_attribute
RECURSIVE FlushJunctions(_, _)
FlushJunctions(d, pend) ==
    IF pend = <<>> THEN [ok |-> TRUE, db |-> d]
    ELSE LET j == Head(pend)
         IN  IF \/ j.variant_id \notin DOMAIN d.variants
                \/ j.attribute_id \notin DOMAIN d.attributes
                \/ j.attribute_value_id \notin DOMAIN d.attr_values
                \/ \E k \in d.junctions : k.variant_id = j.variant_id
                                          /\ k.attribute_id = j.attribute_id
             THEN [ok |-> FALSE, db |-> d]
             ELSE FlushJunctions([d EXCEPT !.junctions = @ \cup {j}], Tail(pend))

\* products.slug and products.sku are unique columns
ProductUniqueClash(d) ==
    \E p, q \in DOMAIN d.products :
        p # q /\ (d.products[p].sku = d.products[q].sku \/ d.products[p].slug = d.products[q].slug)

\* session.flush(): the unit of work writes attributes, then variants, then junctions
Flush(t) ==
    IF t.err # "OK" THEN t
    ELSE LET a == FlushAttrNames(t.db, t.apend)
             v == FlushVariants(a.db, t.vpend)
             j == FlushJunctions(v.db, t.jpend)
         IN  IF ProductUniqueClash(t.db) \/ ~a.ok \/ ~v.ok \/ ~j.ok
             THEN InternalError(t)
             ELSE [t EXCEPT !.db = j.db, !.apend = EmptyMap,
                            !.vpend = EmptyMap, !.jpend = <<>>]

(***************************************************************************)
(* `async with db.begin()`: the block's writes are committed when it ends  *)
(* normally (after a last flush) and rolled back when it raises.  The      *)
(* session is the one app.core.deps.get_db hands to the handler; its       *)
(* begin() is taken to open the transaction of the request.                *)
(***************************************************************************)
\* Commit if a failed block kept the writes its statements had made
CommitWithoutRollback(d, t) ==
    LET f == Flush(t)
    IN  IF f.err = "OK"
        THEN [code |-> "OK", http |-> 200, db |-> f.db]
        ELSE [code |-> f.err, http |-> f.http, db |-> t.db]

Commit(d, t) ==
    LET f == Flush(t)
    IN  IF f.err = "OK"
        THEN [code |-> "OK", http |-> 200, db |-> f.db]
        ELSE [code |-> f.err, http |-> f.http, db |-> d]

(***************************************************************************)
(* admin_create_product                                                    *)
(***************************************************************************)
\* SlugExists if it counted live products only
SlugExistsAmongLive(d, slug, exclude) ==
    \E q \in DOMAIN d.products \ exclude :
        d.products[q].slug = slug /\ ~d.products[q].deleted

\* _slug_exists
SlugExists(d, slug, exclude) ==
    \E q \in DOMAIN d.products \ exclude : d.products[q].slug = slug

\* SkusInUse if the filter on exclude_variant_ids lacked its negation
SkusInUseAmongExcluded(d, skus, exclude) ==
    {s \in skus : \E w \in (IF exclude = {} THEN DOMAIN d.variants
                                            ELSE DOMAIN d.variants \cap exclude) :
                       d.variants[w].sku = s}

\* _skus_in_use: the requested skus some variant outside exclude holds
SkusInUse(d, skus, exclude) ==
    {s \in skus : \E w \in DOMAIN d.variants \ exclude : d.variants[w].sku = s}

\* ValidateVariants if the skus of all variants were compared before any price
ValidateVariantsSkusFirst(vs, i, seen) ==
    IF \E a \in DOMAIN vs : vs[a].sku = "" THEN "SKU_REQUIRED"
    ELSE IF \E a, b \in DOMAIN vs : a # b /\ vs[a].sku = vs[b].sku THEN "SKU_DUPLICATE"
    ELSE IF \E a \in DOMAIN vs : vs[a].price <= 0 THEN "PRICE_INVALID"
    ELSE "OK"

\* the per-variant loop of _validate_create_payload, from entry i on: each
\* variant goes through its three checks before the next one is read
RECURSIVE ValidateVariants(_, _, _)
ValidateVariants(vs, i, seen) ==
    IF i > Len(vs) THEN "OK"
    ELSE IF vs[i].sku = "" THEN "SKU_REQUIRED"
    ELSE IF vs[i].sku \in seen THEN "SKU_DUPLICATE"
    ELSE IF vs[i].price <= 0 THEN "PRICE_INVALID"
    ELSE ValidateVariants(vs, i + 1, seen \cup {vs[i].sku})

ValidateCreatePayload(p) ==
    IF p.name = "" THEN "NAME_REQUIRED"
    ELSE IF ~p.has_variants /\ Len(p.variants) # 1 THEN "DEFAULT_VARIANT_REQUIRED"
    ELSE IF p.has_variants /\ Len(p.variants) = 0 THEN "VARIANTS_REQUIRED"
    ELSE ValidateVariants(p.variants, 1, {})

MediaRows(ms) ==
    [i \in DOMAIN ms |-> [url |-> ms[i].url, sort_order |-> ms[i].sort_order,
                          is_primary |-> (ms[i].sort_order = 1)]]

\* INSERT of one ProductAttributeValue and the flush that yields its id
InsertValue(t, aid, name, val) ==
    LET f == Flush(t)
        id == f.db.next.value
    IN  IF f.err # "OK" THEN f
        ELSE IF \E x \in ValuesOf(f.db, aid) : f.db.attr_values[x].value = val
        THEN InternalError(f)
        ELSE [f EXCEPT !.db.attr_values = Put(@, id, [attribute_id |-> aid, value |-> val]),
                       !.db.next.value = id + 1,
                       !.vip = Put(@, <<name, val>>, id)]

RECURSIVE InsertValues(_, _, _, _, _)
InsertValues(t, aid, name, vals, i) ==
    IF t.err # "OK" \/ i > Len(vals) THEN t
    ELSE InsertValues(InsertValue(t, aid, name, vals[i]), aid, name, vals, i + 1)

\* INSERT of one ProductAttribute and the flush that yields its id
InsertAttribute(t, pid, name) ==
    LET f == Flush(t)
        id == f.db.next.attribute
    IN  IF f.err # "OK" THEN f
        ELSE IF AttrNameTaken(f.db, pid, name, {})
        THEN InternalError(f)
        ELSE [f EXCEPT !.db.attributes = Put(@, id, [product_id |-> pid, name |-> name]),
                       !.db.next.attribute = id + 1,
                       !.abn = Put(@, name, id)]

RECURSIVE CreateAttributes(_, _, _, _)
CreateAttributes(t, pid, attrs, i) ==
    IF t.err # "OK" \/ i > Len(attrs) THEN t
    ELSE LET a == InsertAttribute(t, pid, attrs[i].name)
             aid == a.abn[attrs[i].name]
         IN  IF a.err # "OK" THEN a
             ELSE CreateAttributes(InsertValues(a, aid, attrs[i].name, attrs[i].values, 1),
                                   pid, attrs, i + 1)

\* CreateBindings if a pair the payload does not declare were skipped
RECURSIVE CreateBindingsSkipsUnknown(_, _, _, _)
CreateBindingsSkipsUnknown(t, vid, av, k) ==
    IF t.err # "OK" \/ k > Len(av) THEN t
    ELSE IF av[k][1] \notin DOMAIN t.abn \/ av[k] \notin DOMAIN t.vip
    THEN CreateBindingsSkipsUnknown(t, vid, av, k + 1)
    ELSE CreateBindingsSkipsUnknown(
            [t EXCEPT !.jpend = Append(@, [variant_id |-> vid,
                                           attribute_id |-> t.abn[av[k][1]],
                                           attribute_value_id |-> t.vip[av[k]]])],
            vid, av, k + 1)

\* the attribute_values loop of a created variant, from pair k on
RECURSIVE CreateBindings(_, _, _, _)
CreateBindings(t, vid, av, k) ==
    IF t.err # "OK" \/ k > Len(av) THEN t
    ELSE IF av[k][1] \notin DOMAIN t.abn
    THEN Fail(t, "ATTRIBUTE_INVALID", 400)
    ELSE IF av[k] \notin DOMAIN t.vip
    THEN Fail(t, "ATTRIBUTE_VALUE_INVALID", 400)
    ELSE CreateBindings(
            [t EXCEPT !.jpend = Append(@, [variant_id |-> vid,
                                           attribute_id |-> t.abn[av[k][1]],
                                           attribute_value_id |-> t.vip[av[k]]])],
            vid, av, k + 1)

VariantRow(pid, v) ==
    [product_id |-> pid, sku |-> v.sku, price |-> v.price, cost_price |-> v.cost_price,
     stock |-> v.stock, status |-> v.status, is_active |-> (v.status = "active")]

\* INSERT of one fully populated ProductVariant and the flush that yields its id
InsertVariant(t, pid, v) ==
    LET f == Flush(t)
        id == f.db.next.variant
    IN  IF f.err # "OK" THEN f
        ELSE IF SkuTaken(f.db, v.sku, {})
        THEN InternalError(f)
        ELSE [f EXCEPT !.db.variants = Put(@, id, VariantRow(pid, v)),
                       !.db.next.variant = id + 1]

RECURSIVE CreateVariants(_, _, _, _)
CreateVariants(t, pid, vs, i) ==
    IF t.err # "OK" \/ i > Len(vs) THEN t
    ELSE LET w == InsertVariant(t, pid, vs[i])
         IN  IF w.err # "OK" THEN w
             ELSE CreateVariants(
                     CreateBindings(w, w.db.next.variant - 1, vs[i].attribute_values, 1),
                     pid, vs, i + 1)

\* the body of `async with db.begin()` of admin_create_product
CreateBody(d, p) ==
    LET pid == d.next.product
        row == [slug |-> p.slug, has_variants |-> p.has_variants,
                status |-> p.status, is_active |-> (p.status = "active"),
                featured |-> p.featured, category_id |-> p.category_id,
                affiliate |-> None, deleted |-> FALSE,
                price |-> Min({p.variants[i].price : i \in DOMAIN p.variants}),
                sku |-> p.variants[1].sku,
                stock |-> SumOver([i \in DOMAIN p.variants |-> p.variants[i].stock],
                                  DOMAIN p.variants)]
        t0 == NewTx([d EXCEPT !.products = Put(@, pid, row),
                              !.next.product = pid + 1])
        t1 == Flush(t0)
        t2 == IF t1.err # "OK" THEN t1
              ELSE [t1 EXCEPT !.db.media = Put(@, pid, MediaRows(p.media))]
        t3 == CreateAttributes(t2, pid, p.attributes, 1)
    IN  CreateVariants(t3, pid, p.variants, 1)

AdminCreateProduct(d, p) ==
    LET valid == ValidateCreatePayload(p)
        skus == {p.variants[i].sku : i \in DOMAIN p.variants}
    IN  IF valid # "OK"
        THEN [code |-> valid, http |-> 400, db |-> d]
        ELSE IF SlugExists(d, p.slug, {})
        THEN [code |-> "SLUG_DUPLICATE", http |-> 409, db |-> d]
        ELSE IF SkusInUse(d, skus, {}) # {}
        THEN [code |-> "SKU_DUPLICATE", http |-> 409, db |-> d]
        ELSE LET r == Commit(d, CreateBody(d, p))
             IN  IF r.code = "OK" THEN [r EXCEPT !.http = 201] ELSE r

(***************************************************************************)
(* admin_update_product                                                    *)
(***************************************************************************)
\* ProductFound if a soft-deleted row still counted as found
ProductFoundThoughDeleted(d, pid) == pid \in DOMAIN d.products

\* _get_product_or_404
ProductFound(d, pid) == pid \in DOMAIN d.products /\ ~d.products[pid].deleted

\* _load_attribute_value_lookup: the product's attributes by name and their
\* values by (name, value)
LoadAttributeValueLookup(t, pid) ==
    LET d == t.db
        attrs == AttributesOf(d, pid)
        names == {d.attributes[a].name : a \in attrs}
        byName == [n \in names |-> CHOOSE a \in attrs : d.attributes[a].name = n]
        pairs == {<<d.attributes[d.attr_values[x].attribute_id].name, d.attr_values[x].value>> :
                    x \in {y \in DOMAIN d.attr_values : d.attr_values[y].attribute_id \in attrs}}
    IN  [t EXCEPT !.abn = byName,
                  !.vip = [pr \in pairs |->
                             CHOOSE x \in ValuesOf(d, byName[pr[1]]) :
                                 d.attr_values[x].value = pr[2]]]

\* one entry of payload.attributes: update by id or create, then replace its values
SyncAttribute(t, pid, attr) ==
    LET found == attr.id \in AttributesOf(t.db, pid)
        a == IF attr.id # 0
             THEN IF found
                  THEN [t EXCEPT !.apend = Put(@, attr.id, attr.name),
                                 !.abn = Put(@, attr.name, attr.id)]
                  ELSE Fail(t, "ATTRIBUTE_NOT_FOUND", 400)
             ELSE InsertAttribute(t, pid, attr.name)
        aid == a.abn[attr.name]
    IN  IF a.err # "OK" THEN a
        ELSE InsertValues([a EXCEPT !.db = DeleteValues(@, ValuesOf(a.db, aid))],
                          aid, attr.name, attr.values, 1)

RECURSIVE SyncAttributes(_, _, _, _)
SyncAttributes(t, pid, attrs, i) ==
    IF t.err # "OK" \/ i > Len(attrs) THEN t
    ELSE SyncAttributes(SyncAttribute(t, pid, attrs[i]), pid, attrs, i + 1)

\* the in-request validation loop over payload.variants
RECURSIVE ValidateUpdateVariants(_, _, _)
ValidateUpdateVariants(vs, i, seen) ==
    IF i > Len(vs) THEN "OK"
    ELSE IF vs[i].sku \in seen THEN "SKU_DUPLICATE"
    ELSE IF vs[i].price <= 0 THEN "PRICE_INVALID"
    ELSE ValidateUpdateVariants(vs, i + 1, seen \cup {vs[i].sku})

\* the attribute_values loop of a synced variant, from pair k on
RECURSIVE ReplaceMappings(_, _, _, _)
ReplaceMappings(t, vid, av, k) ==
    IF t.err # "OK" \/ k > Len(av) THEN t
    ELSE IF av[k] \notin DOMAIN t.vip
    THEN Fail(t, "ATTRIBUTE_VALUE_INVALID", 400)
    ELSE ReplaceMappings(
            [t EXCEPT !.jpend = Append(@, [variant_id |-> vid,
                                           attribute_id |-> t.abn[av[k][1]],
                                           attribute_value_id |-> t.vip[av[k]]])],
            vid, av, k + 1)

\* ProductVariant(product_id=...) added and flushed before its sku is assigned:
\* the INSERT carries no sku, which product_variants.sku (NOT NULL) refuses
InsertBlankVariant(t, pid) == InternalError(t)

\* one entry of payload.variants: update by id or create, then replace its mappings
SyncVariant(t, pid, v) ==
    LET w == IF v.id # 0
             THEN IF v.id \in VariantsOf(t.db, pid)
                  THEN [t EXCEPT !.vpend = Put(@, v.id, VariantRow(pid, v))]
                  ELSE Fail(t, "VARIANT_NOT_FOUND", 400)
             ELSE InsertBlankVariant(t, pid)
    IN  IF w.err # "OK" THEN w
        ELSE ReplaceMappings([w EXCEPT !.db = DeleteJunctionsOfVariant(@, v.id)],
                             v.id, v.attribute_values, 1)

RECURSIVE SyncVariantList(_, _, _, _)
SyncVariantList(t, pid, vs, i) ==
    IF t.err # "OK" \/ i > Len(vs) THEN t
    ELSE SyncVariantList(SyncVariant(t, pid, vs[i]), pid, vs, i + 1)

\* the product's variants as the session holds them: loaded rows with the
\* handler's unflushed writes
SessionVariants(t, pid) ==
    [v \in VariantsOf(t.db, pid) |->
        IF v \in DOMAIN t.vpend THEN t.vpend[v] ELSE t.db.variants[v]]

\* "Update back-compat aggregate fields"; first is the row the unordered
\* SELECT returns first
RefreshAfterSync(t, pid, first) ==
    LET rv == SessionVariants(t, pid)
    IN  IF t.err # "OK" \/ DOMAIN rv = {} THEN t
        ELSE [t EXCEPT !.db.products[pid].price = Min({rv[v].price : v \in DOMAIN rv}),
                       !.db.products[pid].sku = rv[first].sku,
                       !.db.products[pid].stock = SumOver([v \in DOMAIN rv |-> rv[v].stock],
                                                          DOMAIN rv)]

\* "Sync variants"
SyncVariants(t, pid, vs, first) ==
    LET valid == ValidateUpdateVariants(vs, 1, {})
        incoming == {vs[i].sku : i \in DOMAIN vs}
        exclude == {vs[i].id : i \in DOMAIN vs} \ {0}
    IN  IF t.err # "OK" THEN t
        ELSE IF valid # "OK" THEN Fail(t, valid, 400)
        ELSE IF SkusInUse(t.db, incoming, exclude) # {} THEN Fail(t, "SKU_DUPLICATE", 409)
        ELSE RefreshAfterSync(SyncVariantList(t, pid, vs, 1), pid, first)

\* DeleteVariantsStep without the order_items count
DeleteVariantsUnguarded(t, pid, ids) ==
    IF t.err # "OK" \/ ids = {} THEN t
    ELSE [t EXCEPT !.db = DeleteVariants(@, ids \cap VariantsOf(t.db, pid))]

\* "Delete variants explicitly"
DeleteVariantsStep(t, pid, ids) ==
    IF t.err # "OK" \/ ids = {} THEN t
    ELSE IF ids \cap t.db.order_items # {}
    THEN Fail(t, "VARIANT_HAS_ORDERS", 409)
    ELSE [t EXCEPT !.db = DeleteVariants(@, ids \cap VariantsOf(t.db, pid))]

\* "Sync attributes (upsert-ish)"
AttributesStep(t, pid, attrs) ==
    IF t.err # "OK" THEN t
    ELSE IF IsSome(attrs) THEN SyncAttributes(t, pid, Val(attrs), 1)
    ELSE LoadAttributeValueLookup(t, pid)

\* DeleteAttributesStep without the product_id filter
DeleteAttributesStepAnyOwner(t, pid, ids) ==
    [t EXCEPT !.db = DeleteAttributes(@, ids)]

\* "Delete attributes explicitly"
DeleteAttributesStep(t, pid, ids) ==
    [t EXCEPT !.db = DeleteAttributes(@, ids \cap AttributesOf(t.db, pid))]

\* "Sync media (replace)"
MediaStep(t, pid, media) ==
    IF IsSome(media) THEN [t EXCEPT !.db.media[pid] = MediaRows(Val(media))] ELSE t

\* "Update product": the scalar fields present in the payload
ScalarStep(t, pid, p) ==
    [t EXCEPT !.db.products[pid] =
        [@ EXCEPT !.slug = IF IsSome(p.slug) THEN Val(p.slug) ELSE @,
                  !.has_variants = IF IsSome(p.has_variants) THEN Val(p.has_variants) ELSE @,
                  !.status = IF IsSome(p.status) THEN Val(p.status) ELSE @,
                  !.is_active = IF IsSome(p.status) THEN Val(p.status) = "active" ELSE @]]

\* UpdateThroughAttributes if the explicit deletes came after "Sync attributes"
UpdateThroughAttributesDeletesLast(d, pid, p) ==
    LET t1 == ScalarStep(NewTx(d), pid, p)
        t2 == MediaStep(t1, pid, p.media)
        t3 == AttributesStep(t2, pid, p.attributes)
    IN  IF t3.err # "OK" THEN t3
        ELSE DeleteAttributesStep(t3, pid, p.deleted_attribute_ids)

\* the transaction of admin_update_product up to and including "Sync attributes"
UpdateThroughAttributes(d, pid, p) ==
    LET t1 == ScalarStep(NewTx(d), pid, p)
        t2 == MediaStep(t1, pid, p.media)
        t3 == DeleteAttributesStep(t2, pid, p.deleted_attribute_ids)
    IN  AttributesStep(t3, pid, p.attributes)

\* ... and up to and including "Delete variants explicitly"
UpdateThroughDeletes(d, pid, p) ==
    DeleteVariantsStep(UpdateThroughAttributes(d, pid, p), pid, p.deleted_variant_ids)

\* the body of `async with db.begin()` of admin_update_product
UpdateBody(d, pid, p, first) ==
    LET t5 == UpdateThroughDeletes(d, pid, p)
    IN  IF IsSome(p.variants) THEN SyncVariants(t5, pid, Val(p.variants), first) ELSE t5

AdminUpdateProduct(d, pid, p, first) ==
    IF ~ProductFound(d, pid)
    THEN [code |-> "NOT_FOUND", http |-> 404, db |-> d]
    ELSE IF IsSome(p.slug) /\ SlugExists(d, Val(p.slug), {pid})
    THEN [code |-> "SLUG_DUPLICATE", http |-> 409, db |-> d]
    ELSE Commit(d, UpdateBody(d, pid, p, first))

(***************************************************************************)
(* admin_patch_variant, admin_bulk_update_variants                         *)
(***************************************************************************)
\* _refresh_product_aggregates; first is the row the unordered SELECT returns first
RefreshProductAggregates(t, pid, first) ==
    LET rv == SessionVariants(t, pid)
    IN  IF pid \notin DOMAIN t.db.products \/ DOMAIN rv = {} THEN t
        ELSE [t EXCEPT !.db.products[pid].price = Min({rv[v].price : v \in DOMAIN rv}),
                       !.db.products[pid].stock = SumOver([v \in DOMAIN rv |-> rv[v].stock],
                                                          DOMAIN rv),
                       !.db.products[pid].sku = rv[first].sku]

\* PatchVariantBody without the call of _refresh_product_aggregates
PatchVariantBodyNoRefresh(d, vid, p, first) ==
    LET old == d.variants[vid]
    IN  [NewTx(d) EXCEPT !.vpend = Put(@, vid,
            [old EXCEPT !.price = IF IsSome(p.price) THEN Val(p.price) ELSE @,
                        !.cost_price = IF IsSome(p.cost_price) THEN p.cost_price ELSE @,
                        !.stock = IF IsSome(p.stock) THEN Val(p.stock) ELSE @,
                        !.status = IF IsSome(p.status) THEN Val(p.status) ELSE @,
                        !.is_active = IF IsSome(p.status) THEN Val(p.status) = "active" ELSE @])]

PatchVariantBody(d, vid, p, first) ==
    LET old == d.variants[vid]
        row == [old EXCEPT !.price = IF IsSome(p.price) THEN Val(p.price) ELSE @,
                           !.cost_price = IF IsSome(p.cost_price) THEN p.cost_price ELSE @,
                           !.stock = IF IsSome(p.stock) THEN Val(p.stock) ELSE @,
                           !.status = IF IsSome(p.status) THEN Val(p.status) ELSE @,
                           !.is_active = IF IsSome(p.status) THEN Val(p.status) = "active" ELSE @]
        t == [NewTx(d) EXCEPT !.vpend = Put(@, vid, row)]
    IN  RefreshProductAggregates(t, old.product_id, first)

AdminPatchVariant(d, vid, p, first) ==
    IF vid \notin DOMAIN d.variants
    THEN [code |-> "VARIANT_NOT_FOUND", http |-> 404, db |-> d]
    ELSE IF IsSome(p.price) /\ Val(p.price) <= 0
    THEN [code |-> "PRICE_INVALID", http |-> 400, db |-> d]
    ELSE IF IsSome(p.cost_price) /\ Val(p.cost_price) < 0
    THEN [code |-> "COST_PRICE_INVALID", http |-> 400, db |-> d]
    ELSE IF IsSome(p.stock) /\ Val(p.stock) < 0
    THEN [code |-> "STOCK_INVALID", http |-> 400, db |-> d]
    ELSE Commit(d, PatchVariantBody(d, vid, p, first))

\* the columns admin_bulk_update_variants lets through (allowed_fields)
AllowedFields == {"price", "stock", "compare_price", "cost_price", "status",
                  "manage_stock", "allow_backorder", "image_url"}

\* UPDATE product_variants SET <update_data> on one row; the columns the
\* model does not hold fall away
SetColumns(row, data) ==
    [row EXCEPT !.price = IF "price" \in DOMAIN data THEN data["price"] ELSE @,
                !.stock = IF "stock" \in DOMAIN data THEN data["stock"] ELSE @,
                !.cost_price = IF "cost_price" \in DOMAIN data THEN Some(data["cost_price"]) ELSE @,
                !.status = IF "status" \in DOMAIN data THEN data["status"] ELSE @]

MaxBulkVariantIds == 200

AdminBulkUpdateVariants(d, pid, ids, update) ==
    LET data == [k \in DOMAIN update \cap AllowedFields |-> update[k]]
        hit == ids \cap VariantsOf(d, pid)
        t == [NewTx(d) EXCEPT !.db.variants =
                 [v \in DOMAIN @ |-> IF v \in hit THEN SetColumns(@[v], data) ELSE @[v]]]
    IN  IF ids = {}
        THEN [code |-> "VARIANT_IDS_REQUIRED", http |-> 400, db |-> d]
        ELSE IF Cardinality(ids) > MaxBulkVariantIds
        THEN [code |-> "TOO_MANY_IDS", http |-> 400, db |-> d]
        ELSE IF DOMAIN data = {}
        THEN [code |-> "UPDATE_INVALID", http |-> 400, db |-> d]
        ELSE Commit(d, t)

(***************************************************************************)
(* admin_quick_patch_product, admin_soft_delete_product                    *)
(***************************************************************************)
QuickPatchBody(d, pid, p) ==
    [NewTx(d) EXCEPT !.db.products[pid] =
        [@ EXCEPT !.status = IF IsSome(p.status) THEN Val(p.status) ELSE @,
                  !.is_active = IF IsSome(p.status) THEN Val(p.status) = "active" ELSE @,
                  !.featured = IF IsSome(p.featured) THEN Val(p.featured) ELSE @,
                  !.category_id = IF IsSome(p.category_id) THEN Val(p.category_id) ELSE @,
                  !.affiliate = IF IsSome(p.affiliate) THEN p.affiliate ELSE @,
                  !.price = IF IsSome(p.price) THEN Val(p.price) ELSE @,
                  !.stock = IF IsSome(p.stock) THEN Val(p.stock) ELSE @]]

AdminQuickPatchProduct(d, pid, p) ==
    IF ~ProductFound(d, pid)
    THEN [code |-> "NOT_FOUND", http |-> 404, db |-> d]
    ELSE IF IsSome(p.price) /\ Val(p.price) <= 0
    THEN [code |-> "PRICE_INVALID", http |-> 400, db |-> d]
    ELSE IF IsSome(p.cost_price) /\ Val(p.cost_price) < 0
    THEN [code |-> "COST_PRICE_INVALID", http |-> 400, db |-> d]
    ELSE IF IsSome(p.stock) /\ Val(p.stock) < 0
    THEN [code |-> "STOCK_INVALID", http |-> 400, db |-> d]
    ELSE Commit(d, QuickPatchBody(d, pid, p))

SoftDeleteRow(row) ==
    [row EXCEPT !.deleted = TRUE, !.is_active = FALSE, !.status = "inactive"]

AdminSoftDeleteProduct(d, pid) ==
    IF ~ProductFound(d, pid)
    THEN [code |-> "NOT_FOUND", http |-> 404, db |-> d]
    ELSE Commit(d, [NewTx(d) EXCEPT !.db.products[pid] = SoftDeleteRow(@)])

(***************************************************************************)
(* admin_bulk_products                                                     *)
(***************************************************************************)
ProductStatuses == {"active", "draft", "inactive", "discontinued"}

\* int() of the JSON values the model sends
IntOf(s) == IF s = "7" THEN Some(7) ELSE None

\* the try block of one id: the row after the action, or None when it raises
BulkApply(row, action, data) ==
    IF action = "status"
    THEN IF IsSome(data.status) /\ Val(data.status) \in ProductStatuses
         THEN Some([row EXCEPT !.status = Val(data.status),
                               !.is_active = (Val(data.status) = "active")])
         ELSE None
    ELSE IF action = "category"
    THEN IF IsSome(data.category_id) /\ IsSome(IntOf(Val(data.category_id)))
         THEN Some([row EXCEPT !.category_id = Val(IntOf(Val(data.category_id)))])
         ELSE None
    ELSE IF action = "affiliate"
    THEN IF data.affiliate = None \/ data.affiliate = Some("")
         THEN Some([row EXCEPT !.affiliate = None])
         ELSE IF IsSome(IntOf(Val(data.affiliate)))
         THEN Some([row EXCEPT !.affiliate = IntOf(Val(data.affiliate))])
         ELSE None
    ELSE IF action = "delete"
    THEN Some(SoftDeleteRow(row))
    ELSE None

\* the loop over payload.ids, from entry i on; by_id is the snapshot of the
\* rows selected before the loop, whose objects the loop mutates
\* BulkLoop if an id whose data is refused were counted in updated as well
RECURSIVE BulkLoopCountsFailed(_, _, _, _, _)
BulkLoopCountsFailed(acc, ids, action, data, i) ==
    IF i > Len(ids) THEN acc
    ELSE LET id == ids[i]
             rows == acc.db.products
         IN  IF id \notin DOMAIN rows \/ rows[id].deleted
             THEN BulkLoopCountsFailed(
                      [acc EXCEPT !.failed = Append(@, [id |-> id, reason |-> "NOT_FOUND"])],
                      ids, action, data, i + 1)
             ELSE LET r == BulkApply(rows[id], action, data)
                  IN  IF IsSome(r)
                      THEN BulkLoopCountsFailed([acc EXCEPT !.db.products[id] = Val(r),
                                                            !.updated = @ + 1],
                                                ids, action, data, i + 1)
                      ELSE BulkLoopCountsFailed(
                               [acc EXCEPT !.updated = @ + 1,
                                           !.failed =
                                               Append(@, [id |-> id, reason |-> "INVALID_DATA"])],
                               ids, action, data, i + 1)

RECURSIVE BulkLoop(_, _, _, _, _)
BulkLoop(acc, ids, action, data, i) ==
    IF i > Len(ids) THEN acc
    ELSE LET id == ids[i]
             rows == acc.db.products
         IN  IF id \notin DOMAIN rows \/ rows[id].deleted
             THEN BulkLoop([acc EXCEPT !.failed = Append(@, [id |-> id, reason |-> "NOT_FOUND"])],
                           ids, action, data, i + 1)
             ELSE LET r == BulkApply(rows[id], action, data)
                  IN  IF IsSome(r)
                      THEN BulkLoop([acc EXCEPT !.db.products[id] = Val(r),
                                                !.updated = @ + 1],
                                    ids, action, data, i + 1)
                      ELSE BulkLoop([acc EXCEPT !.failed =
                                        Append(@, [id |-> id, reason |-> "INVALID_DATA"])],
                                    ids, action, data, i + 1)

MaxBulkIds == 500

\* AdminBulkProducts if one failed id rolled the whole batch back
AdminBulkProductsAllOrNothing(d, ids, action, data) ==
    IF Len(ids) = 0
    THEN [code |-> "IDS_REQUIRED", http |-> 400, db |-> d, updated |-> 0, failed |-> <<>>]
    ELSE IF Len(ids) > MaxBulkIds
    THEN [code |-> "TOO_MANY_IDS", http |-> 400, db |-> d, updated |-> 0, failed |-> <<>>]
    ELSE LET acc == BulkLoop([db |-> d, updated |-> 0, failed |-> <<>>], ids, action, data, 1)
             r == Commit(d, [NewTx(d) EXCEPT !.db = IF acc.failed = <<>> THEN acc.db ELSE d])
         IN  [code |-> r.code, http |-> r.http, db |-> r.db,
              updated |-> acc.updated, failed |-> acc.failed]

AdminBulkProducts(d, ids, action, data) ==
    IF Len(ids) = 0
    THEN [code |-> "IDS_REQUIRED", http |-> 400, db |-> d, updated |-> 0, failed |-> <<>>]
    ELSE IF Len(ids) > MaxBulkIds
    THEN [code |-> "TOO_MANY_IDS", http |-> 400, db |-> d, updated |-> 0, failed |-> <<>>]
    ELSE LET acc == BulkLoop([db |-> d, updated |-> 0, failed |-> <<>>], ids, action, data, 1)
             r == Commit(d, [NewTx(d) EXCEPT !.db = acc.db])
         IN  [code |-> r.code, http |-> r.http, db |-> r.db,
              updated |-> acc.updated, failed |-> acc.failed]

(***************************************************************************)
(* admin_list_products, admin_get_product_detail                           *)
(***************************************************************************)
\* StockStatus if a total of exactly ten still counted as low
StockStatusLowThroughTen(stock_total) ==
    IF stock_total <= 0 THEN "out"
    ELSE IF stock_total <= 10 THEN "low"
    ELSE "in_stock"

\* _stock_status
StockStatus(stock_total) ==
    IF stock_total <= 0 THEN "out"
    ELSE IF stock_total < 10 THEN "low"
    ELSE "in_stock"

\* stock_total_expr: the summed stock of the variants when has_variants is
\* true and the product has variant rows, else the product's own stock
StockTotalExpr(d, pid) ==
    LET vs == VariantsOf(d, pid)
    IN  IF d.products[pid].has_variants /\ vs # {}
        THEN SumOver([v \in vs |-> d.variants[v].stock], vs)
        ELSE d.products[pid].stock

\* the WHERE clause of the stock_status query parameter; any other value
\* adds no filter
StockFilter(stock_status, total) ==
    IF stock_status = Some("out") THEN total <= 0
    ELSE IF stock_status = Some("low") THEN total > 0 /\ total < 10
    ELSE IF stock_status = Some("in_stock") THEN total >= 10
    ELSE TRUE

\* ORDER BY created_at DESC: the rows in reverse order of insertion
RECURSIVE NewestFirst(_)
NewestFirst(ids) ==
    IF ids = {} THEN <<>>
    ELSE LET m == CHOOSE x \in ids : \A y \in ids : y <= x
         IN  <<m>> \o NewestFirst(ids \ {m})

\* the first page of the listing under the default sort
AdminListProducts(d, stock_status) ==
    LET hits == {p \in DOMAIN d.products :
                    /\ ~d.products[p].deleted
                    /\ StockFilter(stock_status, StockTotalExpr(d, p))}
        order == NewestFirst(hits)
    IN  [k \in DOMAIN order |->
            [id |-> order[k],
             stock_total |-> StockTotalExpr(d, order[k]),
             stock_status |-> StockStatus(StockTotalExpr(d, order[k])),
             variant_count |-> Cardinality(VariantsOf(d, order[k])),
             has_variants |-> d.products[order[k]].has_variants]]

AdminGetProductDetail(d, pid) ==
    IF ~ProductFound(d, pid)
    THEN [code |-> "NOT_FOUND", http |-> 404, data |-> <<>>]
    ELSE [code |-> "OK", http |-> 200, data |-> <<[id |-> pid, slug |-> d.products[pid].slug]>>]

(***************************************************************************)
(* The requests the admin client sends.                                    *)
(***************************************************************************)
Pair(n, v) == <<<<n, v>>>>

\* a VariantDTO
Vd(id, sku, price, stock, av) ==
    [id |-> id, sku |-> sku, price |-> price, cost_price |-> None, stock |-> stock,
     status |-> "active", attribute_values |-> av]

\* an AttributeDTO
Ad(id, name, values) == [id |-> id, name |-> name, values |-> values]

\* an AdminProductCreateBody
Cb(name, slug, hv, attrs, vs) ==
    [name |-> name, slug |-> slug, status |-> "active", featured |-> FALSE,
     category_id |-> 1, has_variants |-> hv,
     media |-> <<[url |-> "u1", sort_order |-> 1]>>,
     attributes |-> attrs, variants |-> vs]

SizeSM == <<Ad(0, "Size", <<"S", "M">>)>>

CreateBodiesFor(s) ==
    UNION {
      \* a product without variants: its one default variant
      {Cb("n", s, FALSE, <<>>, <<Vd(0, k, 1, 1, <<>>)>>) : k \in Skus},
      \* a Size product with two variants
      {Cb("n", s, TRUE, SizeSM,
          <<Vd(0, k1, 1, 1, Pair("Size", "S")), Vd(0, k2, 2, 2, Pair("Size", "M"))>>) :
          k1 \in {"k1", "k2"}, k2 \in {"k2", "k3"}},
      \* a variant bound to a declared or an undeclared pair
      {Cb("n", s, TRUE, <<Ad(0, "Size", <<"S">>)>>, <<Vd(0, "k3", 1, 1, av)>>) :
          av \in {Pair("Size", "S"), Pair("Size", "M"), Pair("Color", "S")}},
      \* payloads the validation or the store refuses
      { Cb("", s, TRUE, <<>>, <<Vd(0, "k1", 1, 1, <<>>)>>),
        Cb("n", s, FALSE, <<>>, <<Vd(0, "k1", 1, 1, <<>>), Vd(0, "k2", 1, 1, <<>>)>>),
        Cb("n", s, TRUE, <<>>, <<>>),
        Cb("n", s, TRUE, <<>>, <<Vd(0, "k1", 0, 1, <<>>)>>),
        Cb("n", s, TRUE, <<Ad(0, "Size", <<"S">>), Ad(0, "Size", <<"M">>)>>,
           <<Vd(0, "k1", 1, 1, <<>>)>>),
        Cb("n", s, TRUE, <<Ad(0, "Size", <<"S", "S">>)>>, <<Vd(0, "k1", 1, 1, <<>>)>>) },
      \* payloads that break several rules at once
      { Cb("n", s, TRUE, <<>>, <<Vd(0, "k1", 0, 1, <<>>), Vd(0, "k1", 1, 1, <<>>)>>),
        Cb("n", s, TRUE, <<>>, <<Vd(0, "k1", 1, 1, <<>>), Vd(0, "k1", 0, 1, <<>>)>>),
        Cb("n", s, TRUE, <<>>, <<Vd(0, "", 0, 1, <<>>)>>),
        Cb("", s, FALSE, <<>>, <<Vd(0, "", 0, 1, <<>>), Vd(0, "", 0, 1, <<>>)>>) }
    }

CreateBodies == UNION {CreateBodiesFor(s) : s \in Slugs}

\* an AdminProductUpdateBody
Ub(slug, hv, media, dattrs, attrs, dvars, vs) ==
    [slug |-> slug, has_variants |-> hv, status |-> None, media |-> media,
     deleted_attribute_ids |-> dattrs, attributes |-> attrs,
     deleted_variant_ids |-> dvars, variants |-> vs]

ProductIds == 1..MaxProducts
VariantIds == 1..MaxVariants

\* payloads that leave the variants alone
ScalarUpdateBodies ==
    UNION {
      {Ub(slug, hv, None, {}, None, {}, None) :
          slug \in {None} \cup {Some(s) : s \in Slugs},
          hv \in {None, Some(TRUE), Some(FALSE)}},
      {Ub(None, None, Some(m), {}, None, {}, None) :
          m \in {<<>>, <<[url |-> "u2", sort_order |-> 0]>>}}
    }

AttributeUpdateBodies ==
    UNION {
      {Ub(None, None, None, da, Some(<<Ad(a, n, <<"M">>)>>), {}, None) :
          da \in {{}, {1}}, a \in 0..MaxAttributes, n \in AttrNames},
      {Ub(None, None, None, {1}, None, {}, None),
       Ub(None, None, None, {}, Some(<<>>), {}, None)}
    }

VariantUpdateBodies ==
    UNION {
      \* one variant entry
      {Ub(None, None, None, {}, None, {}, Some(<<Vd(id, k, 2, 1, av)>>)) :
          id \in 0..MaxVariants, k \in Skus,
          av \in {<<>>, Pair("Size", "S"), Pair("Color", "S")}},
      \* deleted variants, alone and with an entry that takes a freed sku
      {Ub(None, None, None, {}, None, dv, vs) :
          dv \in {{1}, {2}, {1, 2}},
          vs \in {None, Some(<<Vd(2, "k1", 1, 1, <<>>)>>)}},
      \* two variant entries
      {Ub(None, None, None, {}, None, {}, Some(<<Vd(1, k1, 1, 1, <<>>), Vd(i2, k2, 2, 1, <<>>)>>)) :
          k1 \in {"k2", "k3"}, k2 \in {"k1", "k3"}, i2 \in {1, 2}},
      \* attributes and variants in one payload
      {Ub(None, None, None, {}, Some(<<a>>), {}, Some(<<Vd(1, "k1", 1, 1, av)>>)) :
          a \in {Ad(0, "Size", <<"S", "M">>), Ad(1, "Size", <<"S", "M">>),
                 Ad(0, "Color", <<"S">>)},
          av \in {Pair("Size", "S"), Pair("Size", "M"), Pair("Color", "S")}},
      \* writes of every earlier step before a failing or passing variant step
      {Ub(Some("s2"), Some(TRUE), Some(<<>>), {}, Some(<<Ad(0, "Color", <<"S">>)>>), dv,
          Some(<<Vd(id, "k1", pr, 1, av)>>)) :
          dv \in {{}, {3}}, id \in {1, 3}, pr \in {0, 1},
          av \in {Pair("Color", "S"), Pair("Color", "M")}},
      \* an attribute deleted while a variant entry is bound to one of its values
      {Ub(None, None, None, {1}, attrs, {}, Some(<<Vd(1, "k1", 1, 1, Pair("Size", "S"))>>)) :
          attrs \in {None, Some(<<Ad(0, "Size", <<"S">>)>>)}},
      { Ub(None, None, None, {}, None, {}, Some(<<>>)) }
    }

UpdateBodies == ScalarUpdateBodies \cup AttributeUpdateBodies \cup VariantUpdateBodies

\* an AdminVariantPatchBody / AdminProductQuickPatchBody
Pb(price, stock, status) ==
    [price |-> price, cost_price |-> None, stock |-> stock, status |-> status,
     featured |-> None, category_id |-> None, affiliate |-> None]

PatchBodies ==
    { Pb(Some(2), None, None), Pb(Some(0), None, None), Pb(None, Some(0), None),
      Pb(None, Some(0 - 1), None), Pb(None, None, Some("inactive")),
      Pb(None, Some(10), None) }

\* AdminVariantPatchBody: the bodies above and two that carry a cost_price
VariantPatchBodies ==
    PatchBodies \cup { [Pb(None, None, None) EXCEPT !.cost_price = Some(0 - 1)],
                       [Pb(Some(0), Some(0 - 1), None) EXCEPT !.cost_price = Some(0 - 1)],
                       [Pb(Some(2), Some(3), None) EXCEPT !.cost_price = Some(1)] }

BulkVariantUpdates ==
    { [price |-> 2], [price |-> 0], [stock |-> 0], [status |-> "inactive"], [sku |-> "k1"] }

BulkData(status) == [status |-> status, category_id |-> None, affiliate |-> None]

Requests ==
    UNION {
      {[op |-> "create", body |-> b] : b \in CreateBodies},
      {[op |-> "update", pid |-> 1, body |-> b] : b \in UpdateBodies},
      {[op |-> "update", pid |-> p, body |-> b] : p \in ProductIds, b \in ScalarUpdateBodies},
      {[op |-> "patch_variant", vid |-> v, body |-> b] : v \in VariantIds, b \in VariantPatchBodies},
      {[op |-> "bulk_variants", pid |-> p, ids |-> ids, update |-> u] :
          p \in ProductIds, ids \in {{}, {1, 2}}, u \in BulkVariantUpdates},
      {[op |-> "quick_patch", pid |-> p, body |-> b] : p \in ProductIds, b \in PatchBodies},
      {[op |-> "soft_delete", pid |-> p] : p \in ProductIds},
      {[op |-> "bulk_products", ids |-> ids, action |-> a, data |-> BulkData(st)] :
          ids \in {<<>>, <<1, 2, 9>>, <<1, 1>>}, a \in {"status", "delete"},
          st \in {None, Some("draft")}},
      {[op |-> "get", pid |-> p] : p \in ProductIds},
      {[op |-> "list", stock_status |-> s] :
          s \in {None, Some("in_stock"), Some("low"), Some("out")}}
    }

NoReq == [op |-> "none"]
NoResp == [code |-> "none", http |-> 0, updated |-> 0, failed |-> <<>>]

Idle == req = NoReq
Pending == req # NoReq /\ resp = NoResp
Done == resp # NoResp

(***************************************************************************)
(* Actions: a request arrives, its handler runs as one transaction, the    *)
(* response leaves.  An order line is written by the checkout.             *)
(***************************************************************************)
\* a client of the concurrent runs with no request in flight
IdleTx == [phase |-> "idle"]

Clients == 1..MaxClients

Init ==
    /\ db = EmptyStore /\ req = NoReq /\ resp = NoResp /\ served = 0
    /\ txs = [c \in Clients |-> IdleTx]

WithinBounds(d) ==
    /\ d.next.product <= MaxProducts + 1
    /\ d.next.variant <= MaxVariants + 1
    /\ d.next.attribute <= MaxAttributes + 1
    /\ d.next.value <= MaxValues + 1

Respond(r) ==
    /\ WithinBounds(r.db)
    /\ db' = r.db
    /\ resp' = [code |-> r.code, http |-> r.http, updated |-> 0, failed |-> <<>>]
    /\ UNCHANGED <<req, served, txs>>

\* the rows an unordered SELECT of the product's variants may return first
FirstRows(d, pid, gone) ==
    IF VariantsOf(d, pid) \ gone = {} THEN {0} ELSE VariantsOf(d, pid) \ gone

Submit ==
    /\ Idle /\ served < MaxRequests
    /\ \E r \in Requests : req' = r
    /\ served' = served + 1
    /\ UNCHANGED <<db, resp, txs>>

CreateProduct ==
    /\ Pending /\ req.op = "create"
    /\ Respond(AdminCreateProduct(db, req.body))

UpdateProduct ==
    /\ Pending /\ req.op = "update"
    /\ \E first \in FirstRows(db, req.pid, req.body.deleted_variant_ids) :
          Respond(AdminUpdateProduct(db, req.pid, req.body, first))

PatchVariant ==
    /\ Pending /\ req.op = "patch_variant"
    /\ \E first \in (IF req.vid \in DOMAIN db.variants
                     THEN FirstRows(db, db.variants[req.vid].product_id, {}) ELSE {0}) :
          Respond(AdminPatchVariant(db, req.vid, req.body, first))

BulkUpdateVariants ==
    /\ Pending /\ req.op = "bulk_variants"
    /\ Respond(AdminBulkUpdateVariants(db, req.pid, req.ids, req.update))

QuickPatchProduct ==
    /\ Pending /\ req.op = "quick_patch"
    /\ Respond(AdminQuickPatchProduct(db, req.pid, req.body))

SoftDeleteProduct ==
    /\ Pending /\ req.op = "soft_delete"
    /\ Respond(AdminSoftDeleteProduct(db, req.pid))

BulkProducts ==
    /\ Pending /\ req.op = "bulk_products"
    /\ LET r == AdminBulkProducts(db, req.ids, req.action, req.data)
       IN  /\ db' = r.db
           /\ resp' = [code |-> r.code, http |-> r.http,
                       updated |-> r.updated, failed |-> r.failed]
    /\ UNCHANGED <<req, served, txs>>

ListProducts ==
    /\ Pending /\ req.op = "list"
    /\ resp' = [code |-> "OK", http |-> 200, updated |-> 0, failed |-> <<>>,
                data |-> AdminListProducts(db, req.stock_status)]
    /\ UNCHANGED <<db, req, served, txs>>

GetProduct ==
    /\ Pending /\ req.op = "get"
    /\ LET r == AdminGetProductDetail(db, req.pid)
       IN  resp' = [code |-> r.code, http |-> r.http, updated |-> 0, failed |-> <<>>,
                    data |-> r.data]
    /\ UNCHANGED <<db, req, served, txs>>

Reply ==
    /\ Done
    /\ req' = NoReq /\ resp' = NoResp
    /\ UNCHANGED <<db, served, txs>>

\* an OrderItem row naming a variant (order_items.product_variant_id)
OrderItemInserted ==
    /\ Idle
    /\ Cardinality(db.order_items) < MaxOrderItems
    /\ \E v \in DOMAIN db.variants : db' = [db EXCEPT !.order_items = @ \cup {v}]
    /\ UNCHANGED <<req, resp, served, txs>>

Next ==
    \/ Submit
    \/ CreateProduct
    \/ UpdateProduct
    \/ PatchVariant
    \/ BulkUpdateVariants
    \/ QuickPatchProduct
    \/ SoftDeleteProduct
    \/ BulkProducts
    \/ ListProducts
    \/ GetProduct
    \/ Reply
    \/ OrderItemInserted

Spec == Init /\ [][Next]_vars

(***************************************************************************)
(* Two clients at once.  A handler reads the store while it runs and its   *)
(* pending writes reach the store at the flush of its commit.  The engine  *)
(* of core/database.py sets no isolation level and the handlers take no    *)
(* row lock, so the store runs READ COMMITTED: between a handler's reads   *)
(* and its commit another client's commit may land.                        *)
(***************************************************************************)
RaceCreateBodies ==
    UNION {
      {Cb("n", s, FALSE, <<>>, <<Vd(0, k, 1, 1, <<>>)>>) : s \in Slugs, k \in {"k1", "k2"}},
      {Cb("n", s, TRUE, SizeSM,
          <<Vd(0, "k1", 1, 1, Pair("Size", "S")), Vd(0, "k2", 2, 2, Pair("Size", "M"))>>) :
          s \in Slugs}
    }

RaceRequests ==
    UNION {
      {[op |-> "create", body |-> b] : b \in RaceCreateBodies},
      {[op |-> "patch_variant", vid |-> v, body |-> b] : v \in VariantIds, b \in PatchBodies}
    }

\* the part of admin_create_product that precedes db.begin(): the payload
\* validation and the two uniqueness reads
CreateChecks(d, p) ==
    LET valid == ValidateCreatePayload(p)
        skus == {p.variants[i].sku : i \in DOMAIN p.variants}
    IN  IF valid # "OK" THEN [code |-> valid, http |-> 400]
        ELSE IF SlugExists(d, p.slug, {}) THEN [code |-> "SLUG_DUPLICATE", http |-> 409]
        ELSE IF SkusInUse(d, skus, {}) # {} THEN [code |-> "SKU_DUPLICATE", http |-> 409]
        ELSE [code |-> "OK", http |-> 201]

\* the part of admin_patch_variant that precedes db.begin()
PatchChecks(d, vid, p) ==
    IF vid \notin DOMAIN d.variants THEN [code |-> "VARIANT_NOT_FOUND", http |-> 404]
    ELSE IF IsSome(p.price) /\ Val(p.price) <= 0 THEN [code |-> "PRICE_INVALID", http |-> 400]
    ELSE IF IsSome(p.cost_price) /\ Val(p.cost_price) < 0
    THEN [code |-> "COST_PRICE_INVALID", http |-> 400]
    ELSE IF IsSome(p.stock) /\ Val(p.stock) < 0 THEN [code |-> "STOCK_INVALID", http |-> 400]
    ELSE [code |-> "OK", http |-> 200]

Answered(op, code, http) == [phase |-> "done", op |-> op, code |-> code, http |-> http]

\* the UPDATE the unit of work emits for a loaded row: the columns whose value
\* differs from the loaded one, the other columns keep what the store holds
WriteChanged(cur, loaded, new) ==
    [k \in DOMAIN cur |-> IF new[k] # loaded[k] THEN new[k] ELSE cur[k]]

\* admin_create_product up to db.begin()
BeginCreate(c) ==
    /\ txs[c] = IdleTx /\ served < MaxRequests
    /\ \E r \in RaceRequests :
          /\ r.op = "create"
          /\ LET chk == CreateChecks(db, r.body)
             IN  txs' = [txs EXCEPT ![c] =
                            IF chk.code # "OK" THEN Answered("create", chk.code, chk.http)
                            ELSE [phase |-> "checked", req |-> r]]
    /\ served' = served + 1
    /\ UNCHANGED <<db, req, resp>>

\* the transaction of admin_create_product: its INSERTs meet the rows
\* committed meanwhile
CommitCreate(c) ==
    /\ txs[c].phase = "checked" /\ txs[c].req.op = "create"
    /\ LET r == Commit(db, CreateBody(db, txs[c].req.body))
       IN  /\ WithinBounds(r.db)
           /\ db' = r.db
           /\ txs' = [txs EXCEPT ![c] =
                         Answered("create", r.code, IF r.code = "OK" THEN 201 ELSE r.http)]
    /\ UNCHANGED <<req, resp, served>>

\* admin_patch_variant up to the end of _refresh_product_aggregates: the rows
\* it reads are those committed now
BeginPatch(c) ==
    /\ txs[c] = IdleTx /\ served < MaxRequests
    /\ \E r \in RaceRequests :
          /\ r.op = "patch_variant"
          /\ LET chk == PatchChecks(db, r.vid, r.body)
             IN  IF chk.code # "OK"
                 THEN txs' = [txs EXCEPT ![c] = Answered("patch_variant", chk.code, chk.http)]
                 ELSE \E first \in FirstRows(db, db.variants[r.vid].product_id, {}) :
                         txs' = [txs EXCEPT ![c] =
                                    [phase |-> "checked", req |-> r, seen |-> db,
                                     first |-> first]]
    /\ served' = served + 1
    /\ UNCHANGED <<db, req, resp>>

\* the commit of admin_patch_variant: the UPDATEs of its variant row and of
\* the product row, computed from the rows it read
CommitPatch(c) ==
    /\ txs[c].phase = "checked" /\ txs[c].req.op = "patch_variant"
    /\ LET t == txs[c]
           vid == t.req.vid
           pid == t.seen.variants[vid].product_id
           r == Commit(t.seen, PatchVariantBody(t.seen, vid, t.req.body, t.first))
       IN  /\ db' = IF r.code # "OK" THEN db
                    ELSE [db EXCEPT
                            !.variants[vid] =
                                WriteChanged(@, t.seen.variants[vid], r.db.variants[vid]),
                            !.products[pid] =
                                WriteChanged(@, t.seen.products[pid], r.db.products[pid])]
           /\ txs' = [txs EXCEPT ![c] = Answered("patch_variant", r.code, r.http)]
    /\ UNCHANGED <<req, resp, served>>

\* the response leaves
Collect(c) ==
    /\ txs[c].phase = "done"
    /\ txs' = [txs EXCEPT ![c] = IdleTx]
    /\ UNCHANGED <<db, req, resp, served>>

RaceNext ==
    \E c \in Clients :
        \/ BeginCreate(c)
        \/ CommitCreate(c)
        \/ BeginPatch(c)
        \/ CommitPatch(c)
        \/ Collect(c)

RaceSpec == Init /\ [][RaceNext]_vars

(***************************************************************************)
(* admin_generate_variants: a pure function of its payload.                *)
(***************************************************************************)
MaxGenAttrs == 2
MaxGenValues == 2

SeqsUpTo(S, n) == UNION {[1..k -> S] : k \in 0..n}

\* the values an attribute of the given name is sent with
GenValues(name) ==
    IF name = "Size" THEN {"S", "M"}
    ELSE IF name = "Color" THEN {"Red", "Blue"}
    ELSE {"S"}

\* the AttributeDTOs of a GenerateVariantsBody; name is any str, the empty one too
GenAttributes ==
    UNION {{Ad(0, n, vs) : vs \in SeqsUpTo(GenValues(n), MaxGenValues)} :
              n \in {"Size", "Color", ""}}

GenRequests ==
    {[op |-> "generate", attributes |-> as] : as \in SeqsUpTo(GenAttributes, MaxGenAttrs)}

\* for x in h: for r in rest: (x,) + r
RECURSIVE WithEach(_, _, _)
WithEach(h, rest, i) ==
    IF i > Len(h) THEN <<>>
    ELSE [j \in 1..Len(rest) |-> <<h[i]>> \o rest[j]] \o WithEach(h, rest, i + 1)

\* itertools.product if the first list varied fastest
RECURSIVE ItertoolsProductFirstFastest(_)
ItertoolsProductFirstFastest(lists) ==
    IF lists = <<>> THEN << <<>> >>
    ELSE LET n == Len(lists)
             init == ItertoolsProductFirstFastest(SubSeq(lists, 1, n - 1))
             last == WithEach(lists[n], init, 1)
         IN  [k \in DOMAIN last |-> Tail(last[k]) \o <<Head(last[k])>>]

\* itertools.product(*lists): tuples in lexicographic order, the last list
\* varying fastest
RECURSIVE ItertoolsProduct(_)
ItertoolsProduct(lists) ==
    IF lists = <<>> THEN << <<>> >>
    ELSE WithEach(Head(lists), ItertoolsProduct(Tail(lists)), 1)

\* {names[i]: combo[i] for i in range(len(names))}: a repeated key keeps the
\* value of its last occurrence
ComboDict(names, combo) ==
    [n \in Range(names) |->
        combo[CHOOSE i \in DOMAIN names :
                 names[i] = n /\ \A j \in DOMAIN names : names[j] = n => j <= i]]

\* AdminGenerateVariants if only the nameless attributes were filtered out
AdminGenerateVariantsKeepsEmpty(attributes) ==
    LET attrs == SelectSeq(attributes, LAMBDA a : a.name # "")
        names == [i \in DOMAIN attrs |-> attrs[i].name]
        values_lists == [i \in DOMAIN attrs |-> attrs[i].values]
        combos == ItertoolsProduct(values_lists)
    IN  IF attrs = <<>> THEN <<>>
        ELSE [k \in DOMAIN combos |-> [attribute_values |-> ComboDict(names, combos[k])]]

AdminGenerateVariants(attributes) ==
    LET attrs == SelectSeq(attributes, LAMBDA a : a.name # "" /\ a.values # <<>>)
        names == [i \in DOMAIN attrs |-> attrs[i].name]
        values_lists == [i \in DOMAIN attrs |-> attrs[i].values]
        combos == ItertoolsProduct(values_lists)
    IN  IF attrs = <<>> THEN <<>>
        ELSE [k \in DOMAIN combos |-> [attribute_values |-> ComboDict(names, combos[k])]]

GenSubmit ==
    /\ Idle
    /\ \E r \in GenRequests : req' = r
    /\ UNCHANGED <<db, resp, served, txs>>

GenerateVariants ==
    /\ Pending /\ req.op = "generate"
    /\ resp' = [code |-> "OK", http |-> 200, updated |-> 0, failed |-> <<>>,
                variants |-> AdminGenerateVariants(req.attributes)]
    /\ UNCHANGED <<db, req, served, txs>>

GenNext ==
    \/ GenSubmit
    \/ GenerateVariants
    \/ Reply

GenSpec == Init /\ [][GenNext]_vars

(***************************************************************************)
(* Properties of the catalog engine.                                       *)
(***************************************************************************)
\* the handler of a request of kind op answers in this step
Handled(op) == Pending /\ req.op = op /\ resp' # NoResp

LiveProducts(d) == {p \in DOMAIN d.products : ~d.products[p].deleted}

\* product.price and product.stock agree with the product's variants
AggregatesHold(d, pid) ==
    LET vs == VariantsOf(d, pid)
    IN  vs # {} =>
          /\ d.products[pid].price = Min({d.variants[v].price : v \in vs})
          /\ d.products[pid].stock = SumOver([v \in vs |-> d.variants[v].stock], vs)

\* C1: after every successful admin_update_product on a live product with
\* has_variants = true, product.price is the minimum price and product.stock
\* the sum of the stocks of the product's persisted variants, whatever the
\* payload contains.
C1_UpdateRecomputesAggregates ==
    (Done /\ req.op = "update" /\ resp.code = "OK" /\ db.products[req.pid].has_variants)
        => AggregatesHold(db, req.pid)

\* C2: in every reachable state each live product that owns variants has
\* product.price = min(variant.price) and product.stock = sum(variant.stock).
C2_AggregatesInvariant ==
    \A p \in LiveProducts(db) : AggregatesHold(db, p)

UniqueSkus(d) ==
    \A v, w \in DOMAIN d.variants : d.variants[v].sku = d.variants[w].sku => v = w

\* the variants list a create or update request carries
PayloadVariants(r) ==
    IF r.op = "create" THEN r.body.variants
    ELSE IF IsSome(r.body.variants) THEN Val(r.body.variants) ELSE <<>>

RepeatsSku(vs) == \E i, j \in DOMAIN vs : i # j /\ vs[i].sku = vs[j].sku

\* the variants the entries of vs update in place
InPlaceIds(vs) == {vs[i].id : i \in DOMAIN vs} \ {0}

\* the variants of its product an update request deletes
DeletedByPayload(d, r) ==
    IF r.op = "update" THEN r.body.deleted_variant_ids \cap VariantsOf(d, r.pid) ELSE {}

\* a sku of vs is held by a variant outside spared
UsesHeldSku(d, vs, spared) ==
    \E i \in DOMAIN vs : \E w \in DOMAIN d.variants \ spared : d.variants[w].sku = vs[i].sku

SlugUsed(d, slug, but) ==
    \E q \in DOMAIN d.products \ but : d.products[q].slug = slug

\* the update request names a live product and a slug no other product holds
UpdateAdmitted(d, r) ==
    /\ r.pid \in LiveProducts(d)
    /\ IsSome(r.body.slug) => ~SlugUsed(d, Val(r.body.slug), {r.pid})

\* no check that precedes the sku checks rejects the request
ReachesSkuChecks(d, r) ==
    IF r.op = "create"
    THEN /\ ValidateCreatePayload(r.body) \in {"OK", "SKU_DUPLICATE"}
         /\ ~SlugUsed(d, r.body.slug, {})
    ELSE /\ UpdateAdmitted(d, r)
         /\ UpdateThroughDeletes(d, r.pid, r.body).err = "OK"
         /\ ValidateUpdateVariants(PayloadVariants(r), 1, {}) \in {"OK", "SKU_DUPLICATE"}

\* C3 as stated: no two variants share a sku; a create or update (that no
\* earlier check rejects) whose payload repeats a sku, or uses a sku held by a
\* variant the payload does not update in place, is rejected with
\* SKU_DUPLICATE and changes nothing.
C3_SkuDuplicateAsStated ==
    [][ /\ UniqueSkus(db')
        /\ (/\ Handled("create") \/ Handled("update")
            /\ ReachesSkuChecks(db, req)
            /\ \/ RepeatsSku(PayloadVariants(req))
               \/ UsesHeldSku(db, PayloadVariants(req), InPlaceIds(PayloadVariants(req))))
           => resp'.code = "SKU_DUPLICATE" /\ db' = db ]_vars

\* C3 (amended): no two variants share a sku; a create or update whose payload
\* repeats a sku, or uses a sku held by a variant the payload neither updates
\* in place nor deletes, is rejected and changes nothing, with SKU_DUPLICATE
\* when no earlier check rejects it.
C3_SkuUnique ==
    [][ /\ UniqueSkus(db')
        /\ (/\ Handled("create") \/ Handled("update")
            /\ \/ RepeatsSku(PayloadVariants(req))
               \/ UsesHeldSku(db, PayloadVariants(req),
                              InPlaceIds(PayloadVariants(req)) \cup DeletedByPayload(db, req)))
           => /\ resp'.code # "OK"
              /\ db' = db
              /\ ReachesSkuChecks(db, req) => resp'.code = "SKU_DUPLICATE" ]_vars

\* C3 witness: an update answered SKU_DUPLICATE / 409 for a sku another variant holds
C3_Witness ==
    /\ Done /\ req.op = "update"
    /\ resp.code = "SKU_DUPLICATE" /\ resp.http = 409
    /\ UsesHeldSku(db, PayloadVariants(req), InPlaceIds(PayloadVariants(req)))

UniqueLiveSlugs(d) ==
    \A p, q \in LiveProducts(d) : d.products[p].slug = d.products[q].slug => p = q

\* C4: a create whose slug an existing product uses persists no row of the
\* attempt and, the payload being one the payload validation lets through,
\* returns SLUG_DUPLICATE / 409; no two live products share a slug.
C4_SlugUnique ==
    [][ /\ UniqueLiveSlugs(db')
        /\ (Handled("create") /\ SlugUsed(db, req.body.slug, {}))
           => /\ resp'.code # "OK"
              /\ db' = db
              /\ ValidateCreatePayload(req.body) = "OK"
                    => resp'.code = "SLUG_DUPLICATE" /\ resp'.http = 409 ]_vars

\* C4 witness: a create answered SLUG_DUPLICATE / 409
C4_Witness ==
    /\ Done /\ req.op = "create"
    /\ resp.code = "SLUG_DUPLICATE" /\ resp.http = 409
    /\ SlugUsed(db, req.body.slug, {})

\* C5: each live product with has_variants = false owns exactly one variant
\* and each live product with has_variants = true owns at least one.
C5_VariantCountInvariant ==
    \A p \in LiveProducts(db) :
        IF db.products[p].has_variants
        THEN Cardinality(VariantsOf(db, p)) >= 1
        ELSE Cardinality(VariantsOf(db, p)) = 1

\* C6: each VariantAttributeValue row points at an existing variant, attribute
\* and attribute value, the attribute belongs to the product of the row's
\* variant, and the value belongs to that attribute.
C6_JunctionsConsistent ==
    \A j \in db.junctions :
        /\ j.variant_id \in DOMAIN db.variants
        /\ j.attribute_id \in DOMAIN db.attributes
        /\ j.attribute_value_id \in DOMAIN db.attr_values
        /\ db.attributes[j.attribute_id].product_id = db.variants[j.variant_id].product_id
        /\ db.attr_values[j.attribute_value_id].attribute_id = j.attribute_id

\* C6 witness: a successful update that replaced the values of an attribute
\* whose old value a variant was bound to, and bound a variant again
C6_Witness ==
    /\ Done /\ req.op = "update" /\ resp.code = "OK"
    /\ IsSome(req.body.attributes) /\ Val(req.body.attributes) # <<>>
    /\ \E j \in db.junctions :
          /\ db.variants[j.variant_id].product_id = req.pid
          /\ j.attribute_value_id > 1

\* C7: an admin_update_product that fails leaves the store exactly as it was
\* before the request.
C7_FailedUpdateChangesNothing ==
    [][ (Handled("update") /\ resp'.code # "OK") => db' = db ]_vars

\* C7 witness: an update that fails in the variant step after its scalar,
\* media and attribute writes were issued
C7_Witness ==
    /\ Done /\ req.op = "update"
    /\ resp.code \in {"PRICE_INVALID", "VARIANT_NOT_FOUND", "ATTRIBUTE_VALUE_INVALID"}
    /\ IsSome(req.body.slug) /\ Val(req.body.slug) # db.products[req.pid].slug
    /\ IsSome(req.body.media) /\ IsSome(req.body.attributes)

\* the update request names a variant an order item refers to for deletion
DeletesOrderedVariant(d, r) == r.body.deleted_variant_ids \cap d.order_items # {}

\* C8: an admin_update_product whose deleted_variant_ids contains a variant id
\* that appears on an order item fails, deletes no variant and applies no other
\* part of the payload, with VARIANT_HAS_ORDERS / 409 when the request passes
\* the steps before the deletion; no step ever removes a variant an order item
\* refers to.
C8_OrderedVariantsKept ==
    [][ /\ (db.order_items \cap DOMAIN db.variants) \subseteq DOMAIN db'.variants
        /\ (Handled("update") /\ DeletesOrderedVariant(db, req))
           => /\ resp'.code # "OK"
              /\ db' = db
              /\ (UpdateAdmitted(db, req)
                  /\ UpdateThroughAttributes(db, req.pid, req.body).err = "OK")
                    => resp'.code = "VARIANT_HAS_ORDERS" /\ resp'.http = 409 ]_vars

\* C8 witness: an update answered VARIANT_HAS_ORDERS / 409 whose payload
\* carries other parts as well
C8_Witness ==
    /\ Done /\ req.op = "update"
    /\ resp.code = "VARIANT_HAS_ORDERS" /\ resp.http = 409
    /\ DeletesOrderedVariant(db, req)
    /\ IsSome(req.body.variants)

\* C9: an admin_update_product that omits variants and has empty
\* deleted_variant_ids leaves every variant row of the product and every
\* junction row of those variants unchanged.
C9_VariantsUntouched ==
    [][ (/\ Handled("update") /\ resp'.code = "OK"
         /\ req.body.variants = None
         /\ req.body.deleted_variant_ids = {}
         /\ req.body.deleted_attribute_ids = {})
        => LET vs == VariantsOf(db, req.pid)
           IN  /\ \A v \in vs : v \in DOMAIN db'.variants /\ db'.variants[v] = db.variants[v]
               /\ {j \in db'.junctions : j.variant_id \in vs}
                    = {j \in db.junctions : j.variant_id \in vs} ]_vars

\* the (attribute name, value) pairs of the product's attributes outside skip
ProductPairs(d, pid, skip) ==
    {<<d.attributes[d.attr_values[x].attribute_id].name, d.attr_values[x].value>> :
        x \in {y \in DOMAIN d.attr_values :
                  d.attr_values[y].attribute_id \in AttributesOf(d, pid) \ skip}}

\* the attributes the payload deletes or replaces the values of
TouchedAttributes(p) ==
    p.deleted_attribute_ids \cup
    (IF IsSome(p.attributes)
     THEN {Val(p.attributes)[i].id : i \in DOMAIN Val(p.attributes)} ELSE {})

\* the (attribute name, value) pairs the payload's variant entries refer to
ReferencedPairs(vs) == UNION {Range(vs[i].attribute_values) : i \in DOMAIN vs}

\* C10: in admin_update_product a variant entry whose attribute_values refer
\* only to pairs that already exist for the product (and that the payload does
\* not touch) is not refused with ATTRIBUTE_VALUE_INVALID, whether the payload
\* carries an attributes list or omits it.
C10_ExistingPairsResolve ==
    [][ (/\ Handled("update")
         /\ IsSome(req.body.variants)
         /\ ReferencedPairs(PayloadVariants(req))
               \subseteq ProductPairs(db, req.pid, TouchedAttributes(req.body)))
        => resp'.code # "ATTRIBUTE_VALUE_INVALID" ]_vars

(***************************************************************************)
(* Variant upsert and repeated updates.                                    *)
(***************************************************************************)
\* the row carries the entry's sku, price, stock and status and belongs to pid
CarriesEntry(row, e, pid) ==
    /\ row.product_id = pid
    /\ row.sku = e.sku /\ row.price = e.price
    /\ row.stock = e.stock /\ row.status = e.status

\* the variants entries are ones the upsert is said to accept: unique skus no
\* other variant holds, positive prices, ids of variants the product keeps,
\* no attribute pair to resolve
UpsertAccepted(d, r) ==
    LET vs == PayloadVariants(r)
    IN  /\ IsSome(r.body.variants) /\ vs # <<>>
        /\ ~RepeatsSku(vs)
        /\ ~UsesHeldSku(d, vs, InPlaceIds(vs))
        /\ \A i \in DOMAIN vs :
              /\ vs[i].price > 0
              /\ vs[i].attribute_values = <<>>
              /\ vs[i].id # 0 =>
                    vs[i].id \in VariantsOf(d, r.pid) \ r.body.deleted_variant_ids
        /\ \A i, j \in DOMAIN vs : (i # j /\ vs[i].id # 0) => vs[i].id # vs[j].id

\* C11: in admin_update_product a variants entry with an id updates that variant
\* in place (same id, no new row) and an entry without an id creates exactly one
\* new variant of the product carrying the entry's sku, price, stock and status;
\* the update succeeds whenever the skus are unique and the prices positive.
C11_VariantUpsert ==
    [][ (/\ Handled("update")
         /\ UpdateAdmitted(db, req)
         /\ UpdateThroughDeletes(db, req.pid, req.body).err = "OK"
         /\ UpsertAccepted(db, req))
        => LET vs == PayloadVariants(req)
               fresh == DOMAIN db'.variants \ DOMAIN db.variants
           IN  /\ resp'.code = "OK"
               /\ \A i \in DOMAIN vs :
                     IF vs[i].id # 0
                     THEN /\ vs[i].id \in DOMAIN db'.variants
                          /\ CarriesEntry(db'.variants[vs[i].id], vs[i], req.pid)
                     ELSE Cardinality({v \in fresh :
                              CarriesEntry(db'.variants[v], vs[i], req.pid)}) = 1
               /\ Cardinality(fresh) = Cardinality({i \in DOMAIN vs : vs[i].id = 0})
      ]_vars

\* what a product persists, the surrogate ids of attributes and values aside
PersistedView(d, pid) ==
    [ price |-> d.products[pid].price,
      stock |-> d.products[pid].stock,
      variants |-> [v \in VariantsOf(d, pid) |-> d.variants[v]],
      attributes |-> {<<d.attributes[a].name,
                        {d.attr_values[x].value : x \in ValuesOf(d, a)}>> :
                          a \in AttributesOf(d, pid)},
      bindings |-> {<<j.variant_id, d.attributes[j.attribute_id].name,
                      d.attr_values[j.attribute_value_id].value>> :
                          j \in {k \in d.junctions : k.variant_id \in VariantsOf(d, pid)}} ]

\* C12: the same admin_update_product payload submitted again right after it
\* was accepted succeeds again, and product.price, product.stock, the variant
\* set, the attribute set and the bindings are those the first submission left,
\* payloads with id-less attributes or variants included.
C12_UpdateIdempotent ==
    [][ (Handled("update") /\ resp'.code = "OK")
        => \A first \in FirstRows(db', req.pid, req.body.deleted_variant_ids) :
              LET again == AdminUpdateProduct(db', req.pid, req.body, first)
              IN  /\ again.code = "OK"
                  /\ PersistedView(again.db, req.pid) = PersistedView(db', req.pid)
      ]_vars

(***************************************************************************)
(* Concurrent requests.                                                    *)
(***************************************************************************)
\* client c's create commits or fails in this step
CreateSettles(c) ==
    /\ txs[c].phase = "checked" /\ txs[c].req.op = "create"
    /\ txs'[c].phase = "done"

\* the slug or a sku of the payload is held by a committed row
Collides(d, p) == SlugUsed(d, p.slug, {}) \/ UsesHeldSku(d, p.variants, {})

\* C13: of two concurrent creates that pass the uniqueness reads and collide
\* on a slug or a sku at most one commits, and the loser is answered with a
\* conflict (HTTP 409) and changes nothing.
C13_LoserGetsConflict ==
    [][ /\ UniqueSkus(db') /\ UniqueLiveSlugs(db')
        /\ \A c \in Clients :
              (CreateSettles(c) /\ Collides(db, txs[c].req.body))
                  => (txs'[c].http = 409 /\ db' = db)
      ]_vars

\* C14: once the concurrent requests on a product's variants have committed,
\* product.price is the minimum price and product.stock the sum of the stocks
\* of the committed variants, as after some serial order of the requests.
C14_ConcurrentAggregates ==
    (\A c \in Clients : txs[c].phase # "checked")
        => \A p \in LiveProducts(db) : AggregatesHold(db, p)

(***************************************************************************)
(* Bulk mutation of products.                                              *)
(***************************************************************************)
RECURSIVE IsSubsequence(_, _)
IsSubsequence(a, b) ==
    IF a = <<>> THEN TRUE
    ELSE IF b = <<>> THEN FALSE
    ELSE IF Head(a) = Head(b) THEN IsSubsequence(Tail(a), Tail(b))
    ELSE IsSubsequence(a, Tail(b))

\* the action data passes the type and range checks of the action
BulkDataValid(action, data) ==
    IF action = "status"
    THEN IsSome(data.status)
         /\ Val(data.status) \in {"active", "draft", "inactive", "discontinued"}
    ELSE action = "delete"

\* a bulk request with 1 to 500 ids is answered in this step
BulkHandled == Handled("bulk_products") /\ Len(req.ids) >= 1 /\ Len(req.ids) <= 500

\* C15: an admin_bulk_products call with 1 to 500 ids counts each entry of ids
\* in updated or lists it in failed, never both: updated + len(failed) =
\* len(ids); a missing or soft-deleted id is reported NOT_FOUND, an id is
\* counted only when the data is valid and every listed live product is
\* counted then, and failed lists ids in request order.
C15_BulkAccounting ==
    [][ BulkHandled =>
          LET ids == req.ids
              failed == resp'.failed
              valid == BulkDataValid(req.action, req.data)
          IN  /\ resp'.code = "OK"
              /\ resp'.updated + Len(failed) = Len(ids)
              /\ IsSubsequence([k \in DOMAIN failed |-> failed[k].id], ids)
              /\ \A x \in Range(ids) \ LiveProducts(db) :
                    Cardinality({k \in DOMAIN failed :
                                    failed[k] = [id |-> x, reason |-> "NOT_FOUND"]})
                        = Cardinality({i \in DOMAIN ids : ids[i] = x})
              /\ ~valid => resp'.updated = 0
              /\ valid => /\ resp'.updated >= Cardinality(Range(ids) \cap LiveProducts(db))
                          /\ \A k \in DOMAIN failed : failed[k].reason = "NOT_FOUND"
      ]_vars

\* ids = [1, 2, 9] with products 1 and 2 live and 9 missing: updated = 2 and
\* failed = [{id: 9, reason: NOT_FOUND}]
C15_Witness ==
    /\ Done /\ req.op = "bulk_products" /\ req.action = "status"
    /\ req.ids = <<1, 2, 9>>
    /\ resp.updated = 2
    /\ resp.failed = <<[id |-> 9, reason |-> "NOT_FOUND"]>>

\* the product row after the bulk action
BulkMutated(row, action, data) ==
    IF action = "status"
    THEN [row EXCEPT !.status = Val(data.status), !.is_active = (Val(data.status) = "active")]
    ELSE [row EXCEPT !.deleted = TRUE, !.is_active = FALSE, !.status = "inactive"]

\* the rows of every table but products, and the set of product rows
BulkFrame(d) == [d EXCEPT !.products = DOMAIN d.products]

\* C16 as stated: every product whose id is recorded in failed is left
\* unchanged, every other listed live product is mutated and committed, and
\* the products not listed are unchanged.
C16_FailedUntouchedAsStated ==
    [][ BulkHandled =>
          LET failedIds == {resp'.failed[k].id : k \in DOMAIN resp'.failed}
          IN  \A p \in DOMAIN db.products :
                 IF p \in failedIds \/ p \notin Range(req.ids)
                 THEN db'.products[p] = db.products[p]
                 ELSE p \in LiveProducts(db) =>
                        db'.products[p] = BulkMutated(db.products[p], req.action, req.data)
      ]_vars

\* C16: a failing id does not abort the batch: a listed product that is missing
\* or soft-deleted before the call, or any listed product when the data is
\* invalid, is left unchanged; with valid data every listed product live before
\* the call is mutated and committed; products not listed and every other
\* table are unchanged.
C16_BulkFrame ==
    [][ BulkHandled =>
          /\ BulkFrame(db') = BulkFrame(db)
          /\ \A p \in DOMAIN db.products :
                IF /\ p \in Range(req.ids) /\ p \in LiveProducts(db)
                   /\ BulkDataValid(req.action, req.data)
                THEN db'.products[p] = BulkMutated(db.products[p], req.action, req.data)
                ELSE db'.products[p] = db.products[p]
      ]_vars

\* a batch with a failed id whose other products were mutated
C16_Witness ==
    /\ Done /\ req.op = "bulk_products" /\ req.action = "status"
    /\ resp.failed # <<>> /\ resp.updated > 0
    /\ \A p \in Range(req.ids) \cap DOMAIN db.products : db.products[p].status = "draft"

(***************************************************************************)
(* Variant generator.                                                      *)
(***************************************************************************)
\* the product of the lengths of the value lists of attrs
RECURSIVE LengthsProduct(_)
LengthsProduct(attrs) ==
    IF attrs = <<>> THEN 1 ELSE Len(Head(attrs).values) * LengthsProduct(Tail(attrs))

\* the value of attribute i in the k-th combination, the first attribute
\* varying slowest and values in declaration order
ValueAt(attrs, i, k) ==
    LET w == LengthsProduct(SubSeq(attrs, i + 1, Len(attrs)))
    IN  attrs[i].values[(((k - 1) \div w) % Len(attrs[i].values)) + 1]

\* variants is the cartesian product of the value lists of attrs as maps from
\* attribute name to value (a repeated name carries its last attribute's value)
IsCartesianProduct(variants, attrs) ==
    /\ Len(variants) = LengthsProduct(attrs)
    /\ \A k \in DOMAIN variants :
          LET m == variants[k].attribute_values
          IN  /\ DOMAIN m = {attrs[i].name : i \in DOMAIN attrs}
              /\ \A i \in DOMAIN attrs :
                    (\A j \in DOMAIN attrs : attrs[j].name = attrs[i].name => j <= i)
                        => m[attrs[i].name] = ValueAt(attrs, i, k)

RemoveAt(s, i) == SubSeq(s, 1, i - 1) \o SubSeq(s, i + 1, Len(s))

C18_EmptyListsSkipped ==
    [][ Handled("generate")
        => LET attrs == req.attributes
               valued == {attrs[i].name : i \in {j \in DOMAIN attrs : attrs[j].values # <<>>}}
           IN  /\ \A i \in DOMAIN attrs :
                     attrs[i].values = <<>>
                         => resp'.variants = AdminGenerateVariants(RemoveAt(attrs, i))
               /\ \A k \in DOMAIN resp'.variants :
                     DOMAIN resp'.variants[k].attribute_values \subseteq valued
               /\ valued = {} => resp'.variants = <<>> ]_vars

\* a named attribute without values was sent next to one with values
C18_Witness ==
    /\ Done /\ req.op = "generate"
    /\ \E i \in DOMAIN req.attributes :
          req.attributes[i].values = <<>> /\ req.attributes[i].name # ""
    /\ resp.variants # <<>>

(***************************************************************************)
(* Listing and soft delete.                                                *)
(***************************************************************************)
\* the bucket of a stock total, threshold 10
Bucket(n) == IF n <= 0 THEN "out" ELSE IF n < 10 THEN "low" ELSE "in_stock"

\* C19: stock_status is out for stock_total <= 0, low for 0 < stock_total < 10
\* and in_stock for stock_total >= 10, every listed item carries the bucket of
\* its stock_total, and the listing filtered by a bucket holds exactly the
\* products of the unfiltered listing whose stock_total is in that bucket.
C19_StockStatusPartition ==
    [][ Handled("list") =>
          LET all == AdminListProducts(db, None)
              got == resp'.data
          IN  /\ \A n \in (0 - 2)..12 : StockStatus(n) = Bucket(n)
              /\ \A k \in DOMAIN got : got[k].stock_status = Bucket(got[k].stock_total)
              /\ req.stock_status = None => got = all
              /\ IsSome(req.stock_status) =>
                    /\ \A k \in DOMAIN got : got[k] \in Range(all)
                    /\ {got[k].id : k \in DOMAIN got}
                         = {all[k].id : k \in {j \in DOMAIN all :
                               Bucket(all[j].stock_total) = Val(req.stock_status)}}
      ]_vars

\* a listing filtered by in_stock that shows a product whose total is exactly 10
C19_Witness ==
    /\ Done /\ req.op = "list" /\ req.stock_status = Some("in_stock")
    /\ \E k \in DOMAIN resp.data : resp.data[k].stock_total = 10

SoftDeleted(d) == DOMAIN d.products \ LiveProducts(d)

\* C20: admin_soft_delete_product on a live product sets deleted_at,
\* is_active = false and status = "inactive" and removes no row; from then on
\* get, update, quick patch and soft delete of the product answer NOT_FOUND
\* (404) and change nothing, bulk reports it NOT_FOUND, the listing omits it;
\* no operation removes a product row or brings a soft-deleted one back.
C20_SoftDeleteIsFinal ==
    [][ /\ DOMAIN db.products \subseteq DOMAIN db'.products
        /\ SoftDeleted(db) \subseteq SoftDeleted(db')
        /\ (Handled("soft_delete") /\ req.pid \in LiveProducts(db)) =>
              /\ resp'.code = "OK"
              /\ db' = [db EXCEPT !.products[req.pid] =
                           [@ EXCEPT !.deleted = TRUE, !.is_active = FALSE,
                                     !.status = "inactive"]]
        /\ \A op \in {"get", "update", "quick_patch", "soft_delete"} :
              (Handled(op) /\ req.pid \in SoftDeleted(db)) =>
                  (resp'.code = "NOT_FOUND" /\ resp'.http = 404 /\ db' = db)
        /\ (Handled("bulk_products") /\ req.ids # <<>>) =>
              \A p \in Range(req.ids) \cap SoftDeleted(db) :
                  /\ \E k \in DOMAIN resp'.failed :
                        resp'.failed[k] = [id |-> p, reason |-> "NOT_FOUND"]
                  /\ db'.products[p] = db.products[p]
        /\ Handled("list") =>
              \A k \in DOMAIN resp'.data : resp'.data[k].id \notin SoftDeleted(db)
      ]_vars

\* a soft-deleted product was asked for, or written to, and answered NOT_FOUND
C20_Witness ==
    /\ Done /\ req.op \in {"get", "update", "quick_patch", "soft_delete"}
    /\ req.pid \in SoftDeleted(db)
    /\ db.products[req.pid].status = "inactive" /\ ~db.products[req.pid].is_active
    /\ resp.code = "NOT_FOUND"

(***************************************************************************)
(* Attribute references, bounds of variant columns, derived columns.       *)
(***************************************************************************)
\* the payload's attributes declare the name, and the value for the name
DeclaresName(attrs, n) == \E i \in DOMAIN attrs : attrs[i].name = n
DeclaresPair(attrs, pr) ==
    \E i \in DOMAIN attrs : attrs[i].name = pr[1] /\ pr[2] \in Range(attrs[i].values)

\* the (variant, pair) positions of a create payload that name something undeclared
UndeclaredRefs(p) ==
    {<<i, k>> \in (DOMAIN p.variants) \X (1..MaxValues) :
        /\ k \in DOMAIN p.variants[i].attribute_values
        /\ ~DeclaresPair(p.attributes, p.variants[i].attribute_values[k])}

\* the first of them in the order the handler walks the variants and their pairs
FirstUndeclared(p) ==
    CHOOSE r \in UndeclaredRefs(p) :
        \A q \in UndeclaredRefs(p) : r[1] < q[1] \/ (r[1] = q[1] /\ r[2] <= q[2])

\* the create request passes the payload validation and the uniqueness reads,
\* its product row is accepted (no product carries the first variant's sku
\* as its legacy sku), and its attributes repeat neither a name nor a value
CreateReachesVariants(d, p) ==
    /\ p.name # ""
    /\ Len(p.variants) >= 1 /\ (~p.has_variants => Len(p.variants) = 1)
    /\ \A q \in DOMAIN d.products : d.products[q].sku # p.variants[1].sku
    /\ ~RepeatsSku(p.variants)
    /\ \A i \in DOMAIN p.variants : p.variants[i].sku # "" /\ p.variants[i].price > 0
    /\ ~SlugUsed(d, p.slug, {}) /\ ~UsesHeldSku(d, p.variants, {})
    /\ \A i, j \in DOMAIN p.attributes :
          i # j => p.attributes[i].name # p.attributes[j].name
    /\ \A i \in DOMAIN p.attributes : \A a, b \in DOMAIN p.attributes[i].values :
          a # b => p.attributes[i].values[a] # p.attributes[i].values[b]

\* C21: an admin_create_product whose variant names an attribute, or a value of
\* an attribute, that the payload does not declare fails and persists nothing;
\* when nothing earlier rejects it the error is ATTRIBUTE_INVALID for an
\* undeclared attribute and ATTRIBUTE_VALUE_INVALID for an undeclared value.
C21_UndeclaredReferenceRollsBack ==
    [][ (Handled("create") /\ UndeclaredRefs(req.body) # {})
        => /\ resp'.code # "OK"
           /\ db' = db
           /\ CreateReachesVariants(db, req.body) =>
                 LET r == FirstUndeclared(req.body)
                     pr == req.body.variants[r[1]].attribute_values[r[2]]
                 IN  /\ resp'.http = 400
                     /\ resp'.code = IF DeclaresName(req.body.attributes, pr[1])
                                     THEN "ATTRIBUTE_VALUE_INVALID"
                                     ELSE "ATTRIBUTE_INVALID"
      ]_vars

\* a create was refused for an undeclared value after its product, attribute,
\* value and variant rows had been flushed, and the store holds none of them
C21_Witness ==
    /\ Done /\ req.op = "create"
    /\ resp.code = "ATTRIBUTE_VALUE_INVALID"
    /\ req.body.attributes # <<>> /\ req.body.media # <<>>
    /\ ~SlugUsed(db, req.body.slug, {})
    /\ ~UsesHeldSku(db, req.body.variants, {})

\* C22: every persisted variant row has price > 0, stock >= 0 and, when
\* present, cost_price >= 0, whatever admin operation wrote it.
C22_VariantBounds ==
    \A v \in DOMAIN db.variants :
        /\ db.variants[v].price > 0
        /\ db.variants[v].stock >= 0
        /\ IsSome(db.variants[v].cost_price) => Val(db.variants[v].cost_price) >= 0

\* C23: in every reachable state each variant's is_active equals
\* (status = "active").
C23_IsActiveMirrorsStatus ==
    \A v \in DOMAIN db.variants :
        db.variants[v].is_active = (db.variants[v].status = "active")

\* the skus of the cheapest variants of the product
CheapestSkus(d, pid) ==
    LET vs == VariantsOf(d, pid)
    IN  {d.variants[v].sku : v \in {w \in vs : \A x \in vs : d.variants[w].price <= d.variants[x].price}}

\* C24: after every successful create, update and variant patch the product's
\* legacy sku is the sku of the product's cheapest variant.
C24_LegacySkuIsCheapest ==
    [][ /\ (Handled("create") /\ resp'.code = "OK") =>
              \A p \in DOMAIN db'.products \ DOMAIN db.products :
                  db'.products[p].sku \in CheapestSkus(db', p)
        /\ (Handled("update") /\ resp'.code = "OK" /\ VariantsOf(db', req.pid) # {}) =>
              db'.products[req.pid].sku \in CheapestSkus(db', req.pid)
        /\ (Handled("patch_variant") /\ resp'.code = "OK") =>
              LET pid == db.variants[req.vid].product_id
              IN  db'.products[pid].sku \in CheapestSkus(db', pid)
      ]_vars

NotFoundKinds == {"NOT_FOUND", "VARIANT_NOT_FOUND", "ATTRIBUTE_NOT_FOUND"}

\* C25: every response that reports an id which does not resolve (a product,
\* a variant or an attribute) carries HTTP 404.
C25_NotFoundIs404 ==
    (Done /\ resp.code \in NotFoundKinds) => resp.http = 404

\* C26: a successful update whose payload holds an explicitly empty media,
\* attributes or variants list leaves the product without media, without
\* attributes, without variants; an absent list leaves that relation as it was.
C26_EmptyListClears ==
    [][ (Handled("update") /\ resp'.code = "OK") =>
          LET p == req.body
              pid == req.pid
          IN  /\ p.media = Some(<<>>) => db'.media[pid] = <<>>
              /\ p.attributes = Some(<<>>) => AttributesOf(db', pid) = {}
              /\ p.variants = Some(<<>>) => VariantsOf(db', pid) = {}
              /\ p.media = None => db'.media[pid] = db.media[pid]
              /\ (p.attributes = None /\ p.deleted_attribute_ids = {})
                    => AttributesOf(db', pid) = AttributesOf(db, pid)
              /\ (p.variants = None /\ p.deleted_variant_ids = {})
                    => VariantsOf(db', pid) = VariantsOf(db, pid) ]_vars

\* the answer of the checks in the order the specification lists them: all
\* skus of the payload are compared before any price is looked at
StatedCreateError(d, p) ==
    IF p.name = "" THEN "NAME_REQUIRED"
    ELSE IF ~p.has_variants /\ Len(p.variants) # 1 THEN "DEFAULT_VARIANT_REQUIRED"
    ELSE IF p.has_variants /\ Len(p.variants) = 0 THEN "VARIANTS_REQUIRED"
    ELSE IF RepeatsSku(p.variants) THEN "SKU_DUPLICATE"
    ELSE IF \E i \in DOMAIN p.variants : p.variants[i].price <= 0 THEN "PRICE_INVALID"
    ELSE IF SlugUsed(d, p.slug, {}) THEN "SLUG_DUPLICATE"
    ELSE IF UsesHeldSku(d, p.variants, {}) THEN "SKU_DUPLICATE"
    ELSE "OK"

\* what is wrong with variant i of the payload, given the variants before it
VariantFault(vs, i) ==
    IF vs[i].sku = "" THEN "SKU_REQUIRED"
    ELSE IF \E j \in 1..(i - 1) : vs[j].sku = vs[i].sku THEN "SKU_DUPLICATE"
    ELSE IF vs[i].price <= 0 THEN "PRICE_INVALID"
    ELSE "OK"

FaultyVariants(vs) == {i \in DOMAIN vs : VariantFault(vs, i) # "OK"}

\* the answer when the sku and price checks go variant by variant
OrderedCreateError(d, p) ==
    IF p.name = "" THEN "NAME_REQUIRED"
    ELSE IF ~p.has_variants /\ Len(p.variants) # 1 THEN "DEFAULT_VARIANT_REQUIRED"
    ELSE IF p.has_variants /\ Len(p.variants) = 0 THEN "VARIANTS_REQUIRED"
    ELSE IF FaultyVariants(p.variants) # {}
    THEN VariantFault(p.variants, Min(FaultyVariants(p.variants)))
    ELSE IF SlugUsed(d, p.slug, {}) THEN "SLUG_DUPLICATE"
    ELSE IF UsesHeldSku(d, p.variants, {}) THEN "SKU_DUPLICATE"
    ELSE "OK"

\* C27 as stated: a create that breaks one of the six rules is answered with
\* the code of the earliest broken rule in the listed order (name, variant
\* count, sku uniqueness over all variants, price of all variants, slug in the
\* store, skus in the store) and writes nothing.
C27_FixedOrderAsStated ==
    [][ (Handled("create") /\ StatedCreateError(db, req.body) # "OK")
          => /\ resp'.code = StatedCreateError(db, req.body)
             /\ db' = db ]_vars

\* C27: a create is answered with the code of the earliest failing check in
\* the order name, variant count, then variant by variant in payload order
\* (sku present, sku not used by an earlier variant, price positive), then
\* slug in the store, then skus in the store; the first four kinds answer
\* HTTP 400, the store conflicts 409, and nothing is written.
C27_FailFastOrder ==
    [][ (Handled("create") /\ OrderedCreateError(db, req.body) # "OK")
          => /\ resp'.code = OrderedCreateError(db, req.body)
             /\ resp'.http = (IF \/ resp'.code = "SLUG_DUPLICATE"
                                 \/ /\ resp'.code = "SKU_DUPLICATE"
                                    /\ FaultyVariants(req.body.variants) = {}
                              THEN 409 ELSE 400)
             /\ db' = db ]_vars

C27_Witness ==
    /\ Done /\ req.op = "create"
    /\ resp.code = "PRICE_INVALID"
    /\ RepeatsSku(req.body.variants)
    /\ SlugUsed(db, req.body.slug, {})

\* the attributes of its product an update request deletes, and their values
DeletedAttributes(d, r) == r.body.deleted_attribute_ids \cap AttributesOf(d, r.pid)
DeletedValues(d, r) ==
    {x \in DOMAIN d.attr_values : d.attr_values[x].attribute_id \in DeletedAttributes(d, r)}

\* a variant entry of the update is bound to a pair under the name of a
\* deleted attribute that the payload does not declare anew
BindsDeleted(d, r) ==
    LET names == {d.attributes[a].name : a \in DeletedAttributes(d, r)}
        vs == IF IsSome(r.body.variants) THEN Val(r.body.variants) ELSE <<>>
        declared == IF IsSome(r.body.attributes) THEN Val(r.body.attributes) ELSE <<>>
    IN  \E i \in DOMAIN vs : \E k \in DOMAIN vs[i].attribute_values :
            /\ vs[i].attribute_values[k][1] \in names
            /\ ~DeclaresPair(declared, vs[i].attribute_values[k])

\* no step before the attribute_values loop of the variants rejects the update
MappingsReached(d, r) ==
    LET vs == Val(r.body.variants)
    IN  /\ UpdateAdmitted(d, r)
        /\ r.body.attributes = None
        /\ r.body.deleted_variant_ids = {}
        /\ IsSome(r.body.variants)
        /\ \A i \in DOMAIN vs : vs[i].id \in VariantsOf(d, r.pid) /\ vs[i].price > 0
        /\ ~RepeatsSku(vs)
        /\ ~UsesHeldSku(d, vs, InPlaceIds(vs))

\* C28: a successful update leaves none of the product's attributes named in
\* deleted_attribute_ids, none of their values and no junction row pointing at
\* them, and leaves the listed attributes of other products as they were; an
\* update that binds a variant to a value of an attribute it deletes is
\* refused with nothing changed, with ATTRIBUTE_VALUE_INVALID (400) when no
\* earlier step refuses it.
C28_DeletedAttributesGoFirst ==
    [][ Handled("update") =>
          LET gone == DeletedAttributes(db, req)
              vals == DeletedValues(db, req)
              others == (req.body.deleted_attribute_ids \cap DOMAIN db.attributes) \ gone
          IN  /\ resp'.code = "OK" =>
                   /\ gone \cap DOMAIN db'.attributes = {}
                   /\ vals \cap DOMAIN db'.attr_values = {}
                   /\ \A j \in db'.junctions :
                          j.attribute_id \notin gone /\ j.attribute_value_id \notin vals
                   /\ \A a \in others :
                          /\ a \in DOMAIN db'.attributes
                          /\ db'.attributes[a] = db.attributes[a]
                          /\ ValuesOf(db', a) = ValuesOf(db, a)
                          /\ {j \in db'.junctions : j.attribute_id = a}
                               = {j \in db.junctions : j.attribute_id = a}
              /\ BindsDeleted(db, req) => (resp'.code # "OK" /\ db' = db)
              /\ (BindsDeleted(db, req) /\ MappingsReached(db, req)) =>
                   (resp'.code = "ATTRIBUTE_VALUE_INVALID" /\ resp'.http = 400) ]_vars

C28_Witness ==
    /\ Done /\ req.op = "update"
    /\ resp.code = "ATTRIBUTE_VALUE_INVALID"
    /\ DeletedAttributes(db, req) # {}
    /\ DeletedValues(db, req) # {}
    /\ BindsDeleted(db, req) /\ MappingsReached(db, req)
    /\ \E j \in db.junctions : j.attribute_id \in DeletedAttributes(db, req)

\* the rows of the store that belong to products other than pid
ForeignRows(d, pid) ==
    LET own == AttributesOf(d, pid)
    IN  [ variants |-> [v \in DOMAIN d.variants \ VariantsOf(d, pid) |-> d.variants[v]],
          attributes |-> [a \in DOMAIN d.attributes \ own |-> d.attributes[a]],
          attr_values |-> [x \in {y \in DOMAIN d.attr_values :
                                     d.attr_values[y].attribute_id \notin own}
                              |-> d.attr_values[x]],
          junctions |-> {j \in d.junctions : j.variant_id \notin VariantsOf(d, pid)},
          media |-> [q \in DOMAIN d.media \ {pid} |-> d.media[q]] ]

ForeignAttributes(d, pid) == DOMAIN d.attributes \ AttributesOf(d, pid)
ForeignVariants(d, pid) == DOMAIN d.variants \ VariantsOf(d, pid)

UpsertedAttributes(r) == IF IsSome(r.body.attributes) THEN Val(r.body.attributes) ELSE <<>>
UpsertedVariants(r) == IF IsSome(r.body.variants) THEN Val(r.body.variants) ELSE <<>>

\* the update carries an attribute or variant entry with the id of a row of
\* another product
NamesForeignEntry(d, r) ==
    \/ \E i \in DOMAIN UpsertedAttributes(r) :
           UpsertedAttributes(r)[i].id \in ForeignAttributes(d, r.pid)
    \/ \E i \in DOMAIN UpsertedVariants(r) :
           UpsertedVariants(r)[i].id \in ForeignVariants(d, r.pid)

\* C29: an update of product P leaves every variant, attribute, attribute
\* value, junction and media row of the other products as it was and binds no
\* variant of P to a row of another product; an update with an attribute or
\* variant entry that carries the id of another product's row is refused with
\* nothing changed, with ATTRIBUTE_NOT_FOUND / VARIANT_NOT_FOUND when that
\* entry is the first one and no earlier step refuses the update.
C29_UpdateFrame ==
    [][ Handled("update") =>
          LET vs == UpsertedVariants(req)
              as == UpsertedAttributes(req)
          IN  /\ ForeignRows(db', req.pid) = ForeignRows(db, req.pid)
              /\ \A j \in db'.junctions :
                     j.variant_id \in VariantsOf(db', req.pid) =>
                        /\ j.attribute_id \in AttributesOf(db', req.pid)
                        /\ j.attribute_value_id \in ValuesOf(db', j.attribute_id)
              /\ NamesForeignEntry(db, req) => (resp'.code # "OK" /\ db' = db)
              /\ ( /\ UpdateAdmitted(db, req)
                   /\ as # <<>>
                   /\ as[1].id \in ForeignAttributes(db, req.pid) )
                    => resp'.code = "ATTRIBUTE_NOT_FOUND"
              /\ ( /\ UpdateAdmitted(db, req)
                   /\ req.body.attributes = None
                   /\ req.body.deleted_variant_ids = {}
                   /\ vs # <<>>
                   /\ vs[1].id \in ForeignVariants(db, req.pid)
                   /\ \A i \in DOMAIN vs : vs[i].price > 0
                   /\ ~RepeatsSku(vs)
                   /\ ~UsesHeldSku(db, vs, InPlaceIds(vs)) )
                    => resp'.code = "VARIANT_NOT_FOUND" ]_vars

C29_Witness ==
    /\ Done /\ req.op = "update" /\ resp.code = "OK"
    /\ req.pid \in LiveProducts(db)
    /\ \E a \in req.body.deleted_attribute_ids \cap ForeignAttributes(db, req.pid) :
           /\ ValuesOf(db, a) # {}
           /\ \E j \in db.junctions : j.attribute_id = a

\* row with the fields present in an AdminVariantPatchBody written over it
Patched(row, p) ==
    [row EXCEPT !.price = IF p.price # None THEN p.price[1] ELSE @,
                !.cost_price = IF p.cost_price # None THEN p.cost_price ELSE @,
                !.stock = IF p.stock # None THEN p.stock[1] ELSE @,
                !.status = IF p.status # None THEN p.status[1] ELSE @,
                !.is_active = IF p.status # None THEN p.status[1] = "active" ELSE @]

BadPrice(p) == p.price # None /\ p.price[1] <= 0
BadCost(p) == p.cost_price # None /\ p.cost_price[1] < 0
BadStock(p) == p.stock # None /\ p.stock[1] < 0

\* C30: admin_patch_variant answers an unknown variant id VARIANT_NOT_FOUND and
\* a price <= 0, cost_price < 0 or stock < 0 PRICE_INVALID, COST_PRICE_INVALID
\* or STOCK_INVALID (the first of them that applies) and then changes nothing;
\* on success the variant differs from before in the fields of the payload
\* only (is_active following status), every other variant and every other
\* product is as before, and the owning product has price = min of its
\* variants' prices and stock = sum of their stocks.
C30_PatchVariant ==
    [][ Handled("patch_variant") =>
          LET vid == req.vid
              p == req.body
              known == vid \in DOMAIN db.variants
              owner == db.variants[vid].product_id
          IN  /\ ~known => (resp'.code = "VARIANT_NOT_FOUND" /\ resp'.http = 404)
              /\ (known /\ BadPrice(p)) => resp'.code = "PRICE_INVALID"
              /\ (known /\ ~BadPrice(p) /\ BadCost(p)) => resp'.code = "COST_PRICE_INVALID"
              /\ (known /\ ~BadPrice(p) /\ ~BadCost(p) /\ BadStock(p))
                    => resp'.code = "STOCK_INVALID"
              /\ (~known \/ BadPrice(p) \/ BadCost(p) \/ BadStock(p))
                    => (resp'.code # "OK" /\ db' = db)
              /\ resp'.code # "OK" => db' = db
              /\ resp'.code = "OK" =>
                   /\ DOMAIN db'.variants = DOMAIN db.variants
                   /\ db'.variants[vid] = Patched(db.variants[vid], p)
                   /\ \A w \in DOMAIN db.variants \ {vid} : db'.variants[w] = db.variants[w]
                   /\ AggregatesHold(db', owner)
                   /\ DOMAIN db'.products = DOMAIN db.products
                   /\ \A q \in DOMAIN db.products \ {owner} : db'.products[q] = db.products[q]
                   /\ db'.products[owner] =
                        [db.products[owner] EXCEPT !.price = db'.products[owner].price,
                                                   !.stock = db'.products[owner].stock,
                                                   !.sku = db'.products[owner].sku]
                   /\ db'.attributes = db.attributes /\ db'.attr_values = db.attr_values
                   /\ db'.junctions = db.junctions /\ db'.media = db.media
                   /\ db'.order_items = db.order_items ]_vars

C30_Witness ==
    /\ Done /\ req.op = "patch_variant" /\ resp.code = "OK"
    /\ req.body.price # None /\ req.body.stock # None /\ req.body.cost_price # None
    /\ Cardinality(VariantsOf(db, db.variants[req.vid].product_id)) >= 2
    /\ db.products[db.variants[req.vid].product_id].price < db.variants[req.vid].price
    /\ \E q \in DOMAIN db.products : q # db.variants[req.vid].product_id

====
